---- MODULE Spec2Model ----
(***************************************************************************)
(* The room / participant registry of the signaling server (src/server.js) *)
(* and its event handlers, as a state machine.                             *)
(*                                                                         *)
(* One action is one run of a handler between two suspension points: the   *)
(* join-room handler is suspended at `await determineOptimalMode(...)' and *)
(* at `await fetch(.../tokens)'; every other handler is synchronous.       *)
(* The `rooms' Map holds references to room objects, and a suspended join  *)
(* handler keeps the reference it read before suspending, so room objects  *)
(* live in a heap and the Map holds their addresses.                       *)
(***************************************************************************)
EXTENDS Integers, FiniteSets, Sequences, TLC

(* ------------------------------ bounds --------------------------------- *)

\* join-room events accepted per connection where a connection may join again.
MaxJoins == 2

\* Clock ticks before the model's clock stops.
MaxTicks == 1

\* Connections of the end-to-end scenario beyond the ten the threshold needs.
ExtraE2E == 0

(* ------------------------- program constants --------------------------- *)

\* `participantCount >= 10' (server.js:126) and `participantCount < 10'
\* (server.js:640).
ModeSwitchThreshold == 10

\* server.js:671, milliseconds.
MAX_INACTIVE_TIME == 30 * 60 * 1000

\* One clock tick: the shortest time after which a room is older than
\* MAX_INACTIVE_TIME.
TickMs == MAX_INACTIVE_TIME + 1

RoomIds == {"r1", "r2"}

\* The connections of every specification but the end-to-end scenario.
SocketIds == {1, 2}

\* A missing, undefined or empty field of a payload (falsy in `!roomId').
Missing == ""

NoRoom == 0

NoParticipant ==
    [roomId |-> Missing, userId |-> Missing, userName |-> Missing,
     mediaState |-> Missing]

Modes == {"p2p", "sfu"}

VARIABLES
    connected,      \* socket id -> the socket is open (io.sockets.sockets)
    adapterRooms,   \* roomId -> sockets subscribed by socket.join(roomId)
    rooms,          \* the `rooms' Map: roomId -> address of its room object
    heap,           \* address -> room object {participants, mode, createdAt}
    participants,   \* the `participants' Map: socket id -> record
    handler,        \* socket id -> frame of its suspended join-room handler
    now,            \* Date.now()
    joinCount,      \* history: join-room events accepted per socket
    overlap,        \* history: a join was accepted from a recorded participant
    sfuRequest,     \* socket id -> its request-sfu-token awaits the SFU
    http,           \* the POST /sfu-token request being served, if any
    net,            \* history: per roomId, joins accepted minus leaves done
    last,           \* history: the handler step just taken
    out             \* history: the events that step emitted, in order

vars == <<connected, adapterRooms, rooms, heap, participants, handler, now,
          joinCount, overlap, sfuRequest, http, net, last, out>>

Sockets == DOMAIN connected

Addresses == DOMAIN heap

Min(S) == CHOOSE x \in S : \A y \in S : x <= y

(* ------------------------------ helpers -------------------------------- *)

IdleFrame ==
    [pc |-> "idle", roomId |-> Missing, room |-> NoRoom, participantCount |-> 0,
     userId |-> Missing, userName |-> Missing, optimalMode |-> "p2p",
     modeChanged |-> FALSE, existingParticipants |-> {}]

FreeObject == [participants |-> {}, mode |-> "p2p", createdAt |-> 0]

\* The room objects something still refers to: the Map's values and the
\* `room' constants of suspended join handlers.
Referenced(rms, hnd) ==
    {rms[r] : r \in DOMAIN rms} \cup {hnd[c].room : c \in DOMAIN hnd}

\* Garbage collection: an object nothing refers to is gone.
Collect(hp, rms, hnd) ==
    [a \in DOMAIN hp |-> IF a \in Referenced(rms, hnd) THEN hp[a] ELSE FreeObject]

\* `new' of a room object: a fresh address.  Which one is immaterial; a
\* room's own slot is taken when it is free, so that the order in which
\* rooms were created leaves no trace.
OwnSlot(roomId) == IF roomId = "r1" THEN 1 ELSE 2

NewAddress(roomId) ==
    LET free == Addresses \ Referenced(rooms, handler)
    IN IF OwnSlot(roomId) \in free THEN OwnSlot(roomId)
       ELSE Min(free \ {OwnSlot(r) : r \in RoomIds})

\* No join handler is suspended.
Quiescent == \A c \in Sockets : handler[c].pc = "idle"

UserIdOf(c) == "u" \o ToString(c)

UserNameOf(c) == "name" \o ToString(c)

\* --- socket.io's delivery: the sockets an emit reaches -------------------

\* socket.emit(...): the socket itself, while it is open.
SocketEmit(conn, c) == IF conn[c] THEN {c} ELSE {}

\* socket.to(roomId).emit(...): the room group except the sender.
SocketTo(grp, c, roomId) == grp[roomId] \ {c}

\* io.to(roomId).emit(...): the whole room group.
IoTo(grp, roomId) == grp[roomId]

(* --------------------------- health probes ----------------------------- *)

\* The `status' a probed service may put in a body that parses, and a body
\* that does not parse (response.json() rejects).
ProbeBodies == {"ok", "healthy", "OK", "running", "down", "unparsable"}

\* What `await fetch(...)' of a probe may end with: a response, 2xx or not,
\* or a rejection (the connection fails).
ProbeResults ==
    [kind : {"response"}, ok : BOOLEAN, body : ProbeBodies]
        \cup {[kind |-> "rejected", ok |-> FALSE, body |-> Missing]}

\* The outbound call of a probe has failed: rejected, answered by a non-2xx,
\* or answered by a body that does not parse.
ProbeFailed(res) ==
    res.kind = "rejected" \/ ~res.ok \/ res.body = "unparsable"

\* Fault: a probe that reads the body of any response, 2xx or not.
CheckSFUHealthIgnoringStatus(res) ==
    res.kind = "response" /\ res.body \in {"ok", "healthy"}

\* checkSFUHealth(): every throw inside the try block ends in `return false'.
CheckSFUHealth(res) ==
    IF res.kind = "rejected" THEN FALSE
    ELSE IF ~res.ok THEN FALSE
    ELSE IF res.body = "unparsable" THEN FALSE
    ELSE res.body \in {"ok", "healthy"}

\* checkP2PHealth()
CheckP2PHealth(res) ==
    IF res.kind = "rejected" THEN FALSE
    ELSE IF ~res.ok THEN FALSE
    ELSE IF res.body = "unparsable" THEN FALSE
    ELSE res.body \in {"OK", "running"}

(* ------------------------- mode arbitration ---------------------------- *)

\* Fault: the threshold compared with > where the code has >=.
DetermineOptimalModeAbove(participantCount, sfuAvailable, p2pAvailable) ==
    IF ~sfuAvailable THEN "p2p"
    ELSE IF ~p2pAvailable THEN "sfu"
    ELSE IF participantCount > ModeSwitchThreshold THEN "sfu"
    ELSE "p2p"

\* determineOptimalMode(roomId, participantCount) once both probes returned.
DetermineOptimalMode(participantCount, sfuAvailable, p2pAvailable) ==
    IF ~sfuAvailable /\ ~p2pAvailable THEN "p2p"
    ELSE IF ~sfuAvailable THEN "p2p"
    ELSE IF ~p2pAvailable THEN "sfu"
    ELSE IF participantCount >= ModeSwitchThreshold THEN "sfu"
    ELSE "p2p"

(* --------------------------- join-room --------------------------------- *)

\* The payloads a client may send with join-room: none at all, or an object
\* in which each required field is present or missing.
AbsentPayload ==
    [present |-> FALSE, roomId |-> Missing, userId |-> Missing,
     userName |-> Missing]

JoinPayloads(c) ==
    {AbsentPayload} \cup
    [present : {TRUE}, roomId : RoomIds \cup {Missing},
     userId : {Missing, UserIdOf(c)}, userName : {Missing, UserNameOf(c)}]

\* History only: the payload carries the three fields join-room requires.
WellFormed(data) ==
    /\ data.present
    /\ data.roomId \in RoomIds
    /\ data.userId # Missing
    /\ data.userName # Missing

\* `const { roomId, userId, userName } = data' throws on an absent payload.
DestructuringThrows(data) == ~data.present

\* Fault: a validation that looks at roomId only.
JoinFieldsPresentRoomOnly(data) == data.roomId # Missing

\* The negation of `!roomId || !userId || !userName'.
JoinFieldsPresent(data) ==
    data.roomId # Missing /\ data.userId # Missing /\ data.userName # Missing

\* The record participants.set(socket.id, {...}) stores.
ParticipantRecord(data) ==
    [roomId |-> data.roomId, userId |-> data.userId, userName |-> data.userName,
     mediaState |-> "audio+video"]

\* The object rooms.set(roomId, {...}) stores for an unseen roomId.
NewRoomObject == [participants |-> {}, mode |-> "p2p", createdAt |-> now]

\* Fault: a join that creates a room object whether the Map has one or not.
IsNewRoomAlways(rms, roomId) == TRUE

\* `!rooms.has(roomId)'
IsNewRoom(rms, roomId) == rms[roomId] = NoRoom

\* Fault: a join that forgets room.participants.add.
AddParticipantForgotten(room, c) == room

\* room.participants.add(socket.id)
AddParticipant(room, c) == [room EXCEPT !.participants = @ \cup {c}]

\* socket.emit('error', {event: 'join-room', ...}), from the validation
\* branch and from the catch block alike.
JoinError(c) ==
    <<[ev |-> "error", to |-> SocketEmit(connected, c), event |-> "join-room"]>>

\* join-room up to `await determineOptimalMode(...)'.
JoinRoom(c, data) ==
    /\ connected[c]
    /\ handler[c].pc = "idle"
    /\ IF DestructuringThrows(data) \/ ~JoinFieldsPresent(data)
       THEN /\ out' = JoinError(c)
            /\ last' = [op |-> "join-room", socket |-> c, accepted |-> FALSE,
                        wellFormed |-> WellFormed(data)]
            /\ UNCHANGED <<connected, adapterRooms, rooms, heap, participants,
                           handler, now, joinCount, overlap, sfuRequest, http, net>>
       ELSE /\ LET roomId == data.roomId
                   isNew == IsNewRoom(rooms, roomId)
                   addr == IF isNew THEN NewAddress(roomId) ELSE rooms[roomId]
                   room == AddParticipant(
                              IF isNew THEN NewRoomObject ELSE heap[addr], c)
               IN /\ adapterRooms' =
                        [adapterRooms EXCEPT ![roomId] = @ \cup {c}]
                  /\ participants' =
                        [participants EXCEPT ![c] = ParticipantRecord(data)]
                  /\ rooms' = [rooms EXCEPT ![roomId] = addr]
                  /\ heap' = [heap EXCEPT ![addr] = room]
                  /\ handler' =
                        [handler EXCEPT ![c] =
                            [pc |-> "health", roomId |-> roomId, room |-> addr,
                             participantCount |-> Cardinality(room.participants),
                             userId |-> data.userId, userName |-> data.userName,
                             optimalMode |-> "p2p", modeChanged |-> FALSE,
                             existingParticipants |-> {}]]
                  /\ joinCount' = [joinCount EXCEPT ![c] = @ + 1]
                  /\ overlap' = (overlap \/ participants[c] # NoParticipant)
                  /\ UNCHANGED <<sfuRequest, http>>
                  /\ net' = [net EXCEPT ![roomId] = @ + 1]
                  /\ last' = [op |-> "join-room", socket |-> c,
                              accepted |-> TRUE,
                              wellFormed |-> WellFormed(data),
                              roomId |-> roomId, created |-> isNew]
                  /\ out' = <<>>
                  /\ UNCHANGED <<connected, now>>

\* The events the join handler emits once it has its token (or none):
\* room-joined to the joiner, user-joined to the rest of the room group,
\* mode-switched to the whole group when this handler changed the mode.
JoinedEvents(c, frame, room, sfuToken) ==
    <<[ev |-> "room-joined", to |-> SocketEmit(connected, c),
       roomId |-> frame.roomId, socketId |-> c,
       participants |-> frame.existingParticipants, mode |-> room.mode,
       sfuToken |-> sfuToken,
       participantsCount |-> Cardinality(room.participants)],
      [ev |-> "user-joined", to |-> SocketTo(adapterRooms, c, frame.roomId),
       socketId |-> c, userId |-> frame.userId,
       participantsCount |-> Cardinality(room.participants),
       mode |-> room.mode]>>
    \o (IF frame.modeChanged
        THEN <<[ev |-> "mode-switched", to |-> IoTo(adapterRooms, frame.roomId),
                mode |-> room.mode,
                participantsCount |-> frame.participantCount]>>
        ELSE <<>>)

\* Fault: a join that computes the new mode and does not store it.
ApplyModeNotStored(room, optimalMode) == room

\* `if (optimalMode !== room.mode) room.mode = optimalMode'
ApplyMode(room, optimalMode) ==
    IF optimalMode # room.mode THEN [room EXCEPT !.mode = optimalMode] ELSE room

\* Fault: a token reported whatever the SFU answered.
SfuTokenOfAnyAnswer(tokenOk) == "token"

\* sfuToken after the token request: the parsed body of an ok response, and
\* null after any other status, a transport error or a body that does not
\* parse.
SfuTokenOf(tokenOk) == IF tokenOk THEN "token" ELSE "null"

\* Fault: a token requested for every join.
NeedsTokenAlways(room) == TRUE

\* `if (room.mode === 'sfu')' before the token request
NeedsToken(room) == room.mode = "sfu"

\* Array.from(room.participants).filter(id => id !== socket.id)
\*      .map(id => participants.get(id)).filter(p => p !== undefined)
ExistingParticipants(room, c) ==
    {id \in room.participants \ {c} : participants[id] # NoParticipant}

\* join-room from the return of determineOptimalMode to the token request,
\* or to its end when the room is not in sfu mode.
JoinHealthDone(c, sfuAvailable, p2pAvailable) ==
    /\ handler[c].pc = "health"
    /\ LET frame == handler[c]
           before == heap[frame.room]
           optimalMode == DetermineOptimalMode(frame.participantCount,
                                               sfuAvailable, p2pAvailable)
           room == ApplyMode(before, optimalMode)
           frame1 == [frame EXCEPT
                        !.optimalMode = optimalMode,
                        !.modeChanged = (optimalMode # before.mode),
                        !.existingParticipants = ExistingParticipants(room, c)]
           done == ~NeedsToken(room)
           hnd == [handler EXCEPT ![c] =
                      IF done THEN IdleFrame ELSE [frame1 EXCEPT !.pc = "token"]]
       IN /\ handler' = hnd
          /\ heap' = Collect([heap EXCEPT ![frame.room] = room], rooms, hnd)
          /\ out' = IF done THEN JoinedEvents(c, frame1, room, "null") ELSE <<>>
          /\ last' = [op |-> "join-arbitrated", socket |-> c,
                      roomId |-> frame.roomId, room |-> frame.room,
                      sfuUp |-> sfuAvailable, meshUp |-> p2pAvailable,
                      count |-> frame.participantCount,
                      prevMode |-> before.mode, optimalMode |-> optimalMode,
                      modeChanged |-> frame1.modeChanged, done |-> done]
          /\ UNCHANGED <<connected, adapterRooms, rooms, participants, now,
                         joinCount, overlap, sfuRequest, http, net>>

\* join-room from the return of `fetch(.../tokens)' to its end: tokenOk is
\* `tokenResponse.ok'; a thrown fetch is caught and leaves sfuToken null too.
JoinTokenDone(c, tokenOk) ==
    /\ handler[c].pc = "token"
    /\ LET frame == handler[c]
           room == heap[frame.room]
           hnd == [handler EXCEPT ![c] = IdleFrame]
       IN /\ handler' = hnd
          /\ heap' = Collect(heap, rooms, hnd)
          /\ out' = JoinedEvents(c, frame, room, SfuTokenOf(tokenOk))
          /\ last' = [op |-> "join-token", socket |-> c,
                      roomId |-> frame.roomId, room |-> frame.room,
                      tokenOk |-> tokenOk, optimalMode |-> frame.optimalMode,
                      modeChanged |-> frame.modeChanged, done |-> TRUE]
          /\ UNCHANGED <<connected, adapterRooms, rooms, participants, now,
                         joinCount, overlap, sfuRequest, http, net>>

(* ---------------------- leave-room / disconnect ------------------------ *)

\* Fault: a teardown that forgets room.participants.delete.
RemoveParticipantForgotten(room, c) == room

\* room.participants.delete(socket.id)
RemoveParticipant(room, c) == [room EXCEPT !.participants = @ \ {c}]

\* `participantCount < 10 && room.mode === 'sfu''
SwitchesToP2P(room) ==
    Cardinality(room.participants) < ModeSwitchThreshold /\ room.mode = "sfu"

\* Fault: a teardown that never deletes the room it has emptied.
DeleteWhenEmptyNever(rms, roomId, room) == rms

\* `if (room.participants.size === 0) rooms.delete(roomId)'
DeleteWhenEmpty(rms, roomId, room) ==
    IF Cardinality(room.participants) = 0
    THEN [rms EXCEPT ![roomId] = NoRoom] ELSE rms

\* Fault: a teardown that forgets participants.delete.
DeleteParticipantForgotten(prt, c) == prt

\* participants.delete(socket.id)
DeleteParticipant(prt, c) == [prt EXCEPT ![c] = NoParticipant]

\* The events of handleParticipantLeaving for a room still in the Map:
\* user-left to the rest of the room group, then mode-switched to the whole
\* group when the room falls back to p2p.  `room' is the object after the
\* removal and before the mode is changed.
LeavingEvents(grp, c, participant, room) ==
    <<[ev |-> "user-left", to |-> SocketTo(grp, c, participant.roomId),
       socketId |-> c, userId |-> participant.userId,
       participantsCount |-> Cardinality(room.participants)]>>
    \o (IF SwitchesToP2P(room)
        THEN <<[ev |-> "mode-switched", to |-> IoTo(grp, participant.roomId),
                mode |-> "p2p",
                participantsCount |-> Cardinality(room.participants)]>>
        ELSE <<>>)

\* handleParticipantLeaving(socket), with `grp' the room groups at the time
\* it runs; op, the event that called it, goes to the history only.
HandleParticipantLeaving(c, grp, op) ==
    LET participant == participants[c]
        roomId == participant.roomId
    IN IF participant = NoParticipant
       THEN /\ out' = <<>>
            /\ last' = [op |-> op, socket |-> c, known |-> FALSE]
            /\ UNCHANGED <<rooms, heap, participants, net>>
       ELSE /\ participants' = DeleteParticipant(participants, c)
            /\ net' = [net EXCEPT ![roomId] = @ - 1]
            /\ IF rooms[roomId] # NoRoom
               THEN LET addr == rooms[roomId]
                        removed == RemoveParticipant(heap[addr], c)
                        room == IF SwitchesToP2P(removed)
                                THEN [removed EXCEPT !.mode = "p2p"]
                                ELSE removed
                        rms == DeleteWhenEmpty(rooms, roomId, room)
                    IN /\ rooms' = rms
                       /\ heap' = Collect([heap EXCEPT ![addr] = room], rms,
                                          handler)
                       /\ out' = LeavingEvents(grp, c, participant, removed)
                       /\ last' = [op |-> op, socket |-> c, known |-> TRUE,
                                   roomId |-> roomId, room |-> addr,
                                   prevMode |-> heap[addr].mode,
                                   mode |-> room.mode,
                                   count |-> Cardinality(room.participants)]
               ELSE /\ out' = <<>>
                    /\ last' = [op |-> op, socket |-> c, known |-> TRUE,
                                roomId |-> roomId, room |-> NoRoom,
                                prevMode |-> "p2p", mode |-> "p2p", count |-> 0]
                    /\ UNCHANGED <<rooms, heap>>

\* What a client may send with leave-room: nothing (the handler's default
\* `data = {}' applies), an object, or null, on which the destructuring
\* throws into the handler's catch block before the teardown is called.
LeavePayloads == {"undefined", "object", "null"}

\* The leave-room handler.
LeaveRoom(c, data) ==
    /\ connected[c]
    /\ IF data = "null"
       THEN /\ out' = <<>>
            /\ last' = [op |-> "leave-room-threw", socket |-> c]
            /\ UNCHANGED <<rooms, heap, participants, net>>
       ELSE HandleParticipantLeaving(c, adapterRooms, "leave-room")
    /\ UNCHANGED <<connected, adapterRooms, handler, now, joinCount, overlap, sfuRequest, http>>

\* socket.io closes the socket and takes it out of every room group, then
\* the disconnect handler runs.
Disconnect(c) ==
    /\ connected[c]
    /\ connected' = [connected EXCEPT ![c] = FALSE]
    /\ adapterRooms' = [r \in RoomIds |-> adapterRooms[r] \ {c}]
    /\ HandleParticipantLeaving(c, adapterRooms', "disconnect")
    /\ UNCHANGED <<handler, now, joinCount, overlap, sfuRequest, http>>

(* --------------------------- signalling relay -------------------------- *)

\* What a client may put in `to': the id of a connection, an id no
\* connection has, nothing, or the id of a room.
RelayTargets == {ToString(c) : c \in Sockets} \cup {"nobody", Missing} \cup RoomIds

\* The payload of webrtc-offer, webrtc-answer and ice-candidate, or none.
RelayPayloads ==
    [present : {TRUE}, to : RelayTargets] \cup {[present |-> FALSE, to |-> Missing]}

RelayKinds == {"webrtc-offer", "webrtc-answer", "ice-candidate"}

\* The sockets of the socket.io room named `to': an open socket is alone in
\* the room named by its own id, and socket.join(roomId) fills the rooms
\* named by room ids.
AdapterRoom(grp, conn, to) ==
    IF to \in RoomIds THEN grp[to]
    ELSE {d \in DOMAIN conn : conn[d] /\ ToString(d) = to}

\* Fault: a relay that reaches everybody in the sender's namespace.
SocketToTargetAll(grp, conn, c, to) == {d \in DOMAIN conn : conn[d]} \ {c}

\* socket.to(targetSocketId): the sockets of that room but the sender.
SocketToTarget(grp, conn, c, to) == AdapterRoom(grp, conn, to) \ {c}

\* The event a relay handler emits; webrtc-offer attaches the sender's
\* participant record, the other two do not.
RelayedEvent(c, kind, to) ==
    IF kind = "webrtc-offer"
    THEN [ev |-> kind, from |-> c, participant |-> participants[c],
          to |-> SocketToTarget(adapterRooms, connected, c, to)]
    ELSE [ev |-> kind, from |-> c,
          to |-> SocketToTarget(adapterRooms, connected, c, to)]

\* The webrtc-offer, webrtc-answer and ice-candidate handlers; destructuring
\* an absent payload throws into the handler's catch block, which only logs.
Relay(c, kind, data) ==
    /\ connected[c]
    /\ out' = IF data.present THEN <<RelayedEvent(c, kind, data.to)>> ELSE <<>>
    /\ last' = [op |-> kind, socket |-> c, present |-> data.present,
                target |-> data.to]
    /\ UNCHANGED <<connected, adapterRooms, rooms, heap, participants, handler,
                   now, joinCount, overlap, sfuRequest, http, net>>

(* ------------------------ media state and chat ------------------------- *)

\* Two payloads of media-state-change.
MediaPayloads == {"audio", "video"}

\* Fault: the media state written to every record of the Map.
SetMediaStateOfAll(prt, c, data) ==
    [d \in DOMAIN prt |-> [prt[d] EXCEPT !.mediaState = data]]

\* participant.mediaState = data
SetMediaState(prt, c, data) == [prt EXCEPT ![c].mediaState = data]

\* The media-state-change handler.
MediaStateChange(c, data) ==
    /\ connected[c]
    /\ IF participants[c] # NoParticipant
       THEN /\ participants' = SetMediaState(participants, c, data)
            /\ out' = <<[ev |-> "participant-media-state", socketId |-> c,
                         mediaState |-> data,
                         to |-> SocketTo(adapterRooms, c,
                                         participants[c].roomId)]>>
       ELSE /\ out' = <<>>
            /\ UNCHANGED participants
    /\ last' = [op |-> "media-state-change", socket |-> c, data |-> data]
    /\ UNCHANGED <<connected, adapterRooms, rooms, heap, handler, now,
                   joinCount, overlap, sfuRequest, http, net>>

\* The event the chat-message handler broadcasts with io.to(roomId).
ChatEvent(c, participant) ==
    [ev |-> "chat-message", socketId |-> c, userId |-> participant.userId,
     userName |-> participant.userName,
     to |-> IoTo(adapterRooms, participant.roomId)]

\* The chat-message handler.
ChatMessage(c) ==
    /\ connected[c]
    /\ out' = IF participants[c] # NoParticipant
              THEN <<ChatEvent(c, participants[c])>> ELSE <<>>
    /\ last' = [op |-> "chat-message", socket |-> c]
    /\ UNCHANGED <<connected, adapterRooms, rooms, heap, participants, handler,
                   now, joinCount, overlap, sfuRequest, http, net>>

(* -------------------------- request-sfu-token -------------------------- *)

\* The payload of request-sfu-token, or none.
TokenRequestPayloads ==
    [present : {TRUE}, roomId : RoomIds \cup {Missing}]
        \cup {[present |-> FALSE, roomId |-> Missing]}

\* Fault: a check that accepts any recorded participant.
TokenRequestRefusedUnlessRecorded(participant, data) ==
    participant = NoParticipant

\* `!participant || participant.roomId !== roomId'
TokenRequestRefused(participant, data) ==
    participant = NoParticipant \/ participant.roomId # data.roomId

\* socket.emit('sfu-token-error', ...)
SfuTokenError(c) ==
    <<[ev |-> "sfu-token-error", to |-> SocketEmit(connected, c)]>>

\* The request-sfu-token handler up to `await fetch'.  An absent payload
\* throws at the destructuring and the catch block answers sfu-token-error.
\* One request per connection is followed at a time.
RequestSfuToken(c, data) ==
    /\ connected[c]
    /\ ~sfuRequest[c]
    /\ IF ~data.present \/ TokenRequestRefused(participants[c], data)
       THEN /\ out' = SfuTokenError(c)
            /\ last' = [op |-> "request-sfu-token", socket |-> c,
                        data |-> data, called |-> FALSE]
            /\ UNCHANGED sfuRequest
       ELSE /\ sfuRequest' = [sfuRequest EXCEPT ![c] = TRUE]
            /\ out' = <<>>
            /\ last' = [op |-> "request-sfu-token", socket |-> c,
                        data |-> data, called |-> TRUE]
    /\ UNCHANGED <<connected, adapterRooms, rooms, heap, participants, handler,
                   now, joinCount, overlap, http, net>>

\* The rest of the handler: sfu-token when the response is ok and its body
\* parses, sfu-token-error from the catch block otherwise.
RequestSfuTokenDone(c, tokenOk) ==
    /\ sfuRequest[c]
    /\ sfuRequest' = [sfuRequest EXCEPT ![c] = FALSE]
    /\ out' = IF tokenOk
              THEN <<[ev |-> "sfu-token", to |-> SocketEmit(connected, c)]>>
              ELSE SfuTokenError(c)
    /\ last' = [op |-> "sfu-token-returned", socket |-> c, tokenOk |-> tokenOk]
    /\ UNCHANGED <<connected, adapterRooms, rooms, heap, participants, handler,
                   now, joinCount, overlap, http, net>>

(* -------------------------- ping and get-stats ------------------------- *)

\* The ping handler.
Ping(c) ==
    /\ connected[c]
    /\ out' = <<[ev |-> "pong", to |-> SocketEmit(connected, c)]>>
    /\ last' = [op |-> "ping", socket |-> c]
    /\ UNCHANGED <<connected, adapterRooms, rooms, heap, participants, handler,
                   now, joinCount, overlap, sfuRequest, http, net>>

\* `room: null' of the stats event.
NullRoom == [roomId |-> Missing, participantsCount |-> 0, mode |-> Missing]

\* Fault: the stats of the first room of the Map, whoever asks.
StatsRoomOfAnyRoom(c) ==
    IF \A r \in RoomIds : rooms[r] = NoRoom THEN NullRoom
    ELSE LET r == CHOOSE r \in RoomIds : rooms[r] # NoRoom
         IN [roomId |-> r,
             participantsCount |-> Cardinality(heap[rooms[r]].participants),
             mode |-> heap[rooms[r]].mode]

\* `participant ? rooms.get(participant.roomId) : null', then the `room'
\* field of the stats event.
StatsRoom(c) ==
    IF participants[c] = NoParticipant THEN NullRoom
    ELSE IF rooms[participants[c].roomId] = NoRoom THEN NullRoom
    ELSE LET room == heap[rooms[participants[c].roomId]]
         IN [roomId |-> participants[c].roomId,
             participantsCount |-> Cardinality(room.participants),
             mode |-> room.mode]

\* The get-stats handler.
GetStats(c) ==
    /\ connected[c]
    /\ out' = <<[ev |-> "stats", socketId |-> c, room |-> StatsRoom(c),
                 to |-> SocketEmit(connected, c)]>>
    /\ last' = [op |-> "get-stats", socket |-> c]
    /\ UNCHANGED <<connected, adapterRooms, rooms, heap, participants, handler,
                   now, joinCount, overlap, sfuRequest, http, net>>

(* --------------------------- POST /sfu-token --------------------------- *)

\* No POST /sfu-token request is being served.
HttpIdle == [pc |-> "idle", room_id |-> Missing]

\* The body of a POST /sfu-token request, or none.
HttpPayloads ==
    [present : {TRUE}, room_id : RoomIds \cup {Missing},
     participant_id : {Missing, "p"}]
        \cup {[present |-> FALSE, room_id |-> Missing, participant_id |-> Missing]}

\* res.status(status).json(...): an HTTP response, which no socket receives.
HttpResponse(status, token) ==
    <<[ev |-> "http-response", status |-> status, token |-> token, to |-> {}]>>

\* The steps of the route leave the registry and the sockets alone.
HttpFrame ==
    UNCHANGED <<connected, adapterRooms, rooms, heap, participants, handler,
                now, joinCount, overlap, sfuRequest, net>>

\* POST /sfu-token up to `await checkSFUHealth()'; one request is followed
\* at a time.
PostSfuToken(data) ==
    /\ http.pc = "idle"
    /\ IF ~data.present
       THEN out' = HttpResponse(500, "null") /\ UNCHANGED http
       ELSE IF data.room_id = Missing \/ data.participant_id = Missing
       THEN out' = HttpResponse(400, "null") /\ UNCHANGED http
       ELSE /\ out' = <<>>
            /\ http' = [pc |-> "health", room_id |-> data.room_id]
    /\ last' = [op |-> "post-sfu-token", data |-> data]
    /\ HttpFrame

\* From the probe's return to `await fetch(.../rooms)'.
PostSfuTokenHealthDone(sfuHealth) ==
    /\ http.pc = "health"
    /\ IF sfuHealth
       THEN out' = <<>> /\ http' = [http EXCEPT !.pc = "rooms"]
       ELSE out' = HttpResponse(503, "null") /\ http' = HttpIdle
    /\ last' = [op |-> "post-sfu-token-health", sfuHealth |-> sfuHealth]
    /\ HttpFrame

\* The negation of `!createRoomResponse.ok'.
EnsureSucceeded(createRoomOk) == createRoomOk

\* From the return of fetch(.../rooms) to `await fetch(.../tokens)'.
PostSfuTokenRoomDone(createRoomOk) ==
    /\ http.pc = "rooms"
    /\ IF EnsureSucceeded(createRoomOk)
       THEN out' = <<>> /\ http' = [http EXCEPT !.pc = "tokens"]
       ELSE out' = HttpResponse(500, "null") /\ http' = HttpIdle
    /\ last' = [op |-> "post-sfu-token-room", room_id |-> http.room_id,
                createRoomOk |-> createRoomOk]
    /\ HttpFrame

\* From the return of fetch(.../tokens) to the response.
PostSfuTokenTokenDone(tokenOk) ==
    /\ http.pc = "tokens"
    /\ out' = IF tokenOk THEN HttpResponse(200, "token")
                         ELSE HttpResponse(500, "null")
    /\ http' = HttpIdle
    /\ last' = [op |-> "post-sfu-token-token", room_id |-> http.room_id,
                tokenOk |-> tokenOk]
    /\ HttpFrame

\* --- the calls a flow has made to the SFU, oldest first --------------------

\* A call and what is known of its outcome where the flow now stands.
SfuCall(url, roomId, answer) == [url |-> url, roomId |-> roomId, answer |-> answer]

\* The join-room handler of c: the probe, then /tokens.
SfuCallsOfJoin(c) ==
    IF handler[c].pc = "health"
    THEN <<SfuCall("/health", Missing, "pending")>>
    ELSE IF handler[c].pc = "token"
    THEN <<SfuCall("/health", Missing, "ok"),
           SfuCall("/tokens", handler[c].roomId, "pending")>>
    ELSE <<>>

\* The request-sfu-token handler of c: /tokens alone.
SfuCallsOfTokenRequest(c) ==
    IF sfuRequest[c]
    THEN <<SfuCall("/tokens", participants[c].roomId, "pending")>>
    ELSE <<>>

\* The POST /sfu-token route: the probe, /rooms, then /tokens.
SfuCallsOfPost ==
    IF http.pc = "health" THEN <<SfuCall("/health", Missing, "pending")>>
    ELSE IF http.pc = "rooms"
    THEN <<SfuCall("/health", Missing, "ok"),
           SfuCall("/rooms", http.room_id, "pending")>>
    ELSE IF http.pc = "tokens"
    THEN <<SfuCall("/health", Missing, "ok"),
           SfuCall("/rooms", http.room_id, "ok"),
           SfuCall("/tokens", http.room_id, "pending")>>
    ELSE <<>>

(* --------------------------- periodic cleanup -------------------------- *)

\* Fault: a first pass that deletes every aged room, empty or not.
ExpiredRoomsEmptyOrNot ==
    {r \in RoomIds :
        /\ rooms[r] # NoRoom
        /\ now - heap[rooms[r]].createdAt > MAX_INACTIVE_TIME}

\* The rooms the first forEach deletes.
ExpiredRooms ==
    {r \in RoomIds :
        /\ rooms[r] # NoRoom
        /\ Cardinality(heap[rooms[r]].participants) = 0
        /\ now - heap[rooms[r]].createdAt > MAX_INACTIVE_TIME}

\* The participants the second forEach deletes, given the Map the first left.
OrphanParticipants(rms) ==
    {c \in Sockets :
        /\ participants[c] # NoParticipant
        /\ rms[participants[c].roomId] = NoRoom}

\* The setInterval callback.
Cleanup ==
    LET rms == [r \in RoomIds |-> IF r \in ExpiredRooms THEN NoRoom ELSE rooms[r]]
        orphans == OrphanParticipants(rms)
    IN /\ rooms' = rms
       /\ heap' = Collect(heap, rms, handler)
       /\ participants' =
             [c \in Sockets |->
                 IF c \in orphans THEN NoParticipant ELSE participants[c]]
       /\ last' = [op |-> "cleanup",
                   cleanedRooms |-> Cardinality(ExpiredRooms),
                   cleanedParticipants |-> Cardinality(orphans)]
       /\ out' = <<>>
       /\ UNCHANGED <<connected, adapterRooms, handler, now, joinCount, overlap, sfuRequest, http, net>>

\* Time passes.
Tick ==
    /\ now < MaxTicks * TickMs
    /\ now' = now + TickMs
    /\ last' = [op |-> "tick"]
    /\ out' = <<>>
    /\ UNCHANGED <<connected, adapterRooms, rooms, heap, participants, handler,
                   joinCount, overlap, sfuRequest, http, net>>

(* --------------------------- specifications ---------------------------- *)

InitWith(sockets, addresses) ==
    /\ connected = [c \in sockets |-> TRUE]
    /\ adapterRooms = [r \in RoomIds |-> {}]
    /\ rooms = [r \in RoomIds |-> NoRoom]
    /\ heap = [a \in addresses |-> FreeObject]
    /\ participants = [c \in sockets |-> NoParticipant]
    /\ handler = [c \in sockets |-> IdleFrame]
    /\ now = 0
    /\ joinCount = [c \in sockets |-> 0]
    /\ overlap = FALSE
    /\ sfuRequest = [c \in sockets |-> FALSE]
    /\ http = HttpIdle
    /\ net = [r \in RoomIds |-> 0]
    /\ last = [op |-> "init"]
    /\ out = <<>>

Init ==
    InitWith(SocketIds, 1 .. (Cardinality(RoomIds) + Cardinality(SocketIds)))

\* A join-room event from a connection that has had fewer than `limit'
\* join-room events accepted.
JoinRoomEvent(limit) ==
    \E c \in Sockets : \E data \in JoinPayloads(c) :
        /\ joinCount[c] < limit
        /\ JoinRoom(c, data)

LeaveRoomEvent == \E c \in Sockets : \E data \in LeavePayloads : LeaveRoom(c, data)

DisconnectEvent == \E c \in Sockets : Disconnect(c)

HealthReturns ==
    \E c \in Sockets : \E sfuAvailable, p2pAvailable \in BOOLEAN :
        JoinHealthDone(c, sfuAvailable, p2pAvailable)

TokenReturns == \E c \in Sockets : \E tokenOk \in BOOLEAN : JoinTokenDone(c, tokenOk)

\* Handlers interleave at their suspension points; a connection joins once.
Next ==
    \/ JoinRoomEvent(1)
    \/ LeaveRoomEvent
    \/ DisconnectEvent
    \/ HealthReturns
    \/ TokenReturns
    \/ Cleanup
    \/ Tick

Spec == Init /\ [][Next]_vars

\* Handlers run one at a time to completion: no event is taken up while a
\* join handler is suspended.
SerialNext ==
    \/ Quiescent /\ JoinRoomEvent(1)
    \/ Quiescent /\ LeaveRoomEvent
    \/ Quiescent /\ DisconnectEvent
    \/ HealthReturns
    \/ TokenReturns
    \/ Quiescent /\ Cleanup
    \/ Quiescent /\ Tick

SpecSerial == Init /\ [][SerialNext]_vars

\* Handlers run one at a time and a connection may join again, in the same
\* room or another, with or without leaving in between.
RejoinNext ==
    \/ Quiescent /\ JoinRoomEvent(MaxJoins)
    \/ Quiescent /\ LeaveRoomEvent
    \/ Quiescent /\ DisconnectEvent
    \/ HealthReturns
    \/ TokenReturns
    \/ Quiescent /\ Cleanup

SpecRejoin == Init /\ [][RejoinNext]_vars

\* The end-to-end scenario: one room, both backing services reachable, the
\* token endpoint succeeding, handlers run one at a time.  The connections
\* are interchangeable, so they join in the order of their ids and the
\* member that departs is the one with the lowest id.
E2ESockets == 1 .. (ModeSwitchThreshold + ExtraE2E)

E2EInit == InitWith(E2ESockets, 1 .. 3)

E2EPayload(c) ==
    [present |-> TRUE, roomId |-> "r1", userId |-> UserIdOf(c),
     userName |-> UserNameOf(c)]

E2EJoin ==
    \E c \in Sockets :
        /\ joinCount[c] = 0
        /\ \A b \in Sockets : b < c => joinCount[b] > 0
        /\ JoinRoom(c, E2EPayload(c))

E2ENextToDepart(c) ==
    /\ participants[c] # NoParticipant
    /\ \A b \in Sockets : b < c => participants[b] = NoParticipant

E2ELeave == \E c \in Sockets : E2ENextToDepart(c) /\ LeaveRoom(c, "object")

E2EDisconnect == \E c \in Sockets : E2ENextToDepart(c) /\ Disconnect(c)

E2EHealthReturns == \E c \in Sockets : JoinHealthDone(c, TRUE, TRUE)

E2ETokenReturns == \E c \in Sockets : JoinTokenDone(c, TRUE)

E2ENext ==
    \/ Quiescent /\ E2EJoin
    \/ Quiescent /\ E2ELeave
    \/ Quiescent /\ E2EDisconnect
    \/ E2EHealthReturns
    \/ E2ETokenReturns

SpecE2E == E2EInit /\ [][E2ENext]_vars

(* Signalling between the members of rooms that both services serve: joins
   find both services up, so every room stays in p2p and no join waits for
   a token, and every connection may relay, chat, change its media state
   and ask for a token at any time. *)
MsgJoin ==
    \E c \in Sockets : \E roomId \in RoomIds :
        /\ joinCount[c] < 1
        /\ JoinRoom(c, [present |-> TRUE, roomId |-> roomId,
                        userId |-> UserIdOf(c), userName |-> UserNameOf(c)])

MsgLeave == \E c \in Sockets : LeaveRoom(c, "object")

RelayEvent ==
    \E c \in Sockets : \E kind \in RelayKinds : \E data \in RelayPayloads :
        Relay(c, kind, data)

MediaStateChangeEvent ==
    \E c \in Sockets : \E data \in MediaPayloads : MediaStateChange(c, data)

ChatMessageEvent == \E c \in Sockets : ChatMessage(c)

RequestSfuTokenEvent ==
    \E c \in Sockets : \E data \in TokenRequestPayloads : RequestSfuToken(c, data)

SfuReturns ==
    \E c \in Sockets : \E tokenOk \in BOOLEAN : RequestSfuTokenDone(c, tokenOk)

PingEvent == \E c \in Sockets : Ping(c)

GetStatsEvent == \E c \in Sockets : GetStats(c)

MsgNext ==
    \/ MsgJoin
    \/ MsgLeave
    \/ DisconnectEvent
    \/ E2EHealthReturns
    \/ RelayEvent
    \/ MediaStateChangeEvent
    \/ ChatMessageEvent
    \/ RequestSfuTokenEvent
    \/ SfuReturns
    \/ PingEvent
    \/ GetStatsEvent

SpecMsg == Init /\ [][MsgNext]_vars

(* The arbiter on its own: a room of n members, stored in either mode, whose
   n-th member's join-room handler is suspended on determineOptimalMode; the
   probes then return every combination of health.  A room in sfu below the
   threshold is one whose earlier joins found the mesh service down, a room
   in p2p at or above it one whose earlier joins found the SFU down; a room
   just created is in p2p. *)
ArbInit ==
    \E n \in E2ESockets : \E mode \in Modes :
        /\ n = 1 => mode = "p2p"
        /\ connected = [c \in E2ESockets |-> TRUE]
        /\ adapterRooms = [r \in RoomIds |-> IF r = "r1" THEN 1 .. n ELSE {}]
        /\ rooms = [r \in RoomIds |-> IF r = "r1" THEN 1 ELSE NoRoom]
        /\ heap = [a \in 1 .. 3 |->
                      IF a = 1
                      THEN [participants |-> 1 .. n, mode |-> mode,
                            createdAt |-> 0]
                      ELSE FreeObject]
        /\ participants = [c \in E2ESockets |->
                              IF c <= n THEN ParticipantRecord(E2EPayload(c))
                              ELSE NoParticipant]
        /\ handler = [c \in E2ESockets |->
                         IF c = n
                         THEN [pc |-> "health", roomId |-> "r1", room |-> 1,
                               participantCount |-> n,
                               userId |-> UserIdOf(c),
                               userName |-> UserNameOf(c),
                               optimalMode |-> "p2p", modeChanged |-> FALSE,
                               existingParticipants |-> {}]
                         ELSE IdleFrame]
        /\ now = 0
        /\ joinCount = [c \in E2ESockets |-> IF c <= n THEN 1 ELSE 0]
        /\ overlap = FALSE
        /\ sfuRequest = [c \in E2ESockets |-> FALSE]
        /\ http = HttpIdle
        /\ net = [r \in RoomIds |-> IF r = "r1" THEN n ELSE 0]
        /\ last = [op |-> "join-room", socket |-> n, accepted |-> TRUE,
                    wellFormed |-> TRUE, roomId |-> "r1", created |-> (n = 1)]
        /\ out = <<>>

ArbNext ==
    \/ HealthReturns
    \/ TokenReturns

SpecArb == ArbInit /\ [][ArbNext]_vars

(* The probes' calls spelt out, on the arbiter's initial states: each probe
   of the suspended join ends with any of the results a call may have. *)
ProbesReturn ==
    \E c \in Sockets : \E sfuRes, p2pRes \in ProbeResults :
        JoinHealthDone(c, CheckSFUHealth(sfuRes), CheckP2PHealth(p2pRes))

ProbeNext ==
    \/ ProbesReturn
    \/ TokenReturns

SpecProbe == ArbInit /\ [][ProbeNext]_vars

(* The three flows that ask the SFU for a token: joins, request-sfu-token
   and POST /sfu-token, interleaved. *)
PostSfuTokenEvent == \E data \in HttpPayloads : PostSfuToken(data)

PostSfuTokenHealthReturns ==
    \E res \in ProbeResults : PostSfuTokenHealthDone(CheckSFUHealth(res))

PostSfuTokenRoomReturns ==
    \E createRoomOk \in BOOLEAN : PostSfuTokenRoomDone(createRoomOk)

PostSfuTokenTokenReturns == \E tokenOk \in BOOLEAN : PostSfuTokenTokenDone(tokenOk)

SfuNext ==
    \/ JoinRoomEvent(1)
    \/ HealthReturns
    \/ TokenReturns
    \/ RequestSfuTokenEvent
    \/ SfuReturns
    \/ PostSfuTokenEvent
    \/ PostSfuTokenHealthReturns
    \/ PostSfuTokenRoomReturns
    \/ PostSfuTokenTokenReturns

SpecSfu == Init /\ [][SfuNext]_vars

(* Three connections around one room: their joins interleave at both
   suspension points, with leaves of the others in between; a connection
   joins once. *)
ConcSockets == {1, 2, 3}

ConcInit == InitWith(ConcSockets, 1 .. (Cardinality(RoomIds) + Cardinality(ConcSockets)))

ConcJoin ==
    \E c \in Sockets :
        /\ joinCount[c] < 1
        /\ JoinRoom(c, E2EPayload(c))

\* The SFU is up; the mesh service is up or down.
ConcHealthReturns ==
    \E c \in Sockets : \E p2pAvailable \in BOOLEAN :
        JoinHealthDone(c, TRUE, p2pAvailable)

ConcNext ==
    \/ ConcJoin
    \/ MsgLeave
    \/ ConcHealthReturns
    \/ E2ETokenReturns

SpecConc == ConcInit /\ [][ConcNext]_vars

(* One room around the threshold, both services up, the token endpoint
   succeeding: the first connections join one at a time, the last ones join
   while other joins are suspended, and the member with the lowest id may
   leave at any moment. *)
CrossFrom == ModeSwitchThreshold - 2

\* A suspended handler keeps its room object alive: one address for each
\* handler that can be suspended at once, and one for the Map.
CrossInit == InitWith(E2ESockets, 1 .. (4 + ExtraE2E))

CrossJoin ==
    \E c \in Sockets :
        /\ joinCount[c] = 0
        /\ \A b \in Sockets : b < c => joinCount[b] > 0
        /\ Quiescent \/ c > CrossFrom
        /\ JoinRoom(c, E2EPayload(c))

CrossNext ==
    \/ CrossJoin
    \/ E2ELeave
    \/ E2EHealthReturns
    \/ E2ETokenReturns

SpecCross == CrossInit /\ [][CrossNext]_vars

(* Progress.  The event loop resumes a handler when the call it awaits
   settles, and nothing else does: no handler arms a timer or an abort
   signal for its call, and `timeout' is not an option fetch() reads.  The
   periodic cleanup is the one thing the server's own scheduling keeps
   running, so SpecLive is fair to it alone and a backing service may leave
   a call unanswered; SpecLiveAnswered adds services that answer every
   call. *)
LiveNext ==
    \/ JoinRoomEvent(1)
    \/ HealthReturns
    \/ TokenReturns
    \/ RequestSfuTokenEvent
    \/ SfuReturns
    \/ Cleanup

SpecLive == Init /\ [][LiveNext]_vars /\ WF_vars(Cleanup)

SpecLiveAnswered ==
    /\ SpecLive
    /\ \A c \in SocketIds :
          /\ WF_vars(\E sfuAvailable, p2pAvailable \in BOOLEAN :
                        JoinHealthDone(c, sfuAvailable, p2pAvailable))
          /\ WF_vars(\E tokenOk \in BOOLEAN : JoinTokenDone(c, tokenOk))
          /\ WF_vars(\E tokenOk \in BOOLEAN : RequestSfuTokenDone(c, tokenOk))

(* ========================= registry invariants ========================= *)

\* The room objects, in the Map or still held by a suspended handler, whose
\* member set contains connection c.
RoomsHolding(c) == {a \in Addresses : c \in heap[a].participants}

\* No connection has been accepted by join-room more than once.
SingleJoin == \A c \in Sockets : joinCount[c] <= 1

\* The number of members of room roomId, 0 when the Map has no such room.
RoomSize(roomId) ==
    IF rooms[roomId] = NoRoom THEN 0
    ELSE Cardinality(heap[rooms[roomId]].participants)

\* C1: when each connection sends join-room at most once, then after every
\* handler step, a join suspended at an await and a cleanup pass included, a
\* connection has a participant record exactly if it is in the member set of
\* exactly one room, and that room is the one the Map holds under the
\* record's roomId.
C1_RecordIffMember ==
    SingleJoin =>
        \A c \in Sockets :
            /\ participants[c] # NoParticipant
                   <=> Cardinality(RoomsHolding(c)) = 1
            /\ participants[c] = NoParticipant => RoomsHolding(c) = {}
            /\ participants[c] # NoParticipant =>
                   /\ participants[c].roomId \in RoomIds
                   /\ RoomsHolding(c) = {rooms[participants[c].roomId]}

\* C1 witness: one connection is a recorded member of a room while its join
\* is suspended on the token request, and the other one, which had joined
\* the same room, has just been torn down.
C1_Witness ==
    /\ last.op \in {"leave-room", "disconnect"}
    /\ last.known
    /\ participants[last.socket] = NoParticipant
    /\ \E c \in Sockets \ {last.socket} :
           /\ handler[c].pc = "token"
           /\ participants[c].roomId = last.roomId
           /\ c \in heap[rooms[last.roomId]].participants

\* C2: a room is in the Map exactly while its member set is non-empty: every
\* room of the Map has a member, every room object with a member is in the
\* Map, the join that finds no room creates one whose only member is the
\* joiner, and the teardown that removes the last member deletes the room in
\* the same step.
C2_RoomIffNonEmpty ==
    /\ \A r \in RoomIds : rooms[r] # NoRoom => RoomSize(r) > 0
    /\ \A a \in Addresses :
           heap[a].participants # {} => \E r \in RoomIds : rooms[r] = a
    /\ \A r, q \in RoomIds : rooms[r] # NoRoom /\ rooms[r] = rooms[q] => r = q
    /\ (last.op = "join-room" /\ last.accepted /\ last.created) =>
           /\ rooms[last.roomId] # NoRoom
           /\ heap[rooms[last.roomId]].participants = {last.socket}
    /\ (last.op \in {"leave-room", "disconnect"} /\ last.known
           /\ last.room # NoRoom /\ last.count = 0) =>
           rooms[last.roomId] = NoRoom

\* C2 witness: the teardown of the last member has just deleted the room,
\* which a first join had created.
C2_Witness ==
    /\ last.op \in {"leave-room", "disconnect"}
    /\ last.known
    /\ last.room # NoRoom
    /\ last.count = 0
    /\ rooms[last.roomId] = NoRoom
    /\ joinCount[last.socket] = 1

LeftARoom ==
    /\ last.op \in {"leave-room", "disconnect"}
    /\ last.known
    /\ last.room # NoRoom

\* The step just taken ended a join-room handler.
JoinCompleted ==
    /\ last.op \in {"join-arbitrated", "join-token"}
    /\ last.done

\* The mode-switched events among the events of the step just taken.
ModeSwitchedEvents == {i \in DOMAIN out : out[i].ev = "mode-switched"}

\* C4 as stated: with handlers run one at a time, the mode a join stores is
\* the arbiter's output for the room's size after the join and the health
\* its probes observed; and the mode of a room that outlives a teardown is
\* the arbiter's output for the size after the teardown, for every health of
\* the two services under which the mode stored before the teardown was the
\* arbiter's output for the size the room had then.
C4_StoredModeIsArbitrated ==
    /\ last.op = "join-arbitrated" =>
           heap[last.room].mode =
               DetermineOptimalMode(RoomSize(last.roomId),
                                    last.sfuUp, last.meshUp)
    /\ (LeftARoom /\ rooms[last.roomId] # NoRoom) =>
           \A sfuUp, meshUp \in BOOLEAN :
               last.prevMode =
                   DetermineOptimalMode(RoomSize(last.roomId) + 1,
                                        sfuUp, meshUp)
               => heap[rooms[last.roomId]].mode =
                      DetermineOptimalMode(RoomSize(last.roomId),
                                           sfuUp, meshUp)

\* The join half of C4 alone, which the serial runs satisfy.
C4_JoinStoresArbitratedMode ==
    last.op = "join-arbitrated" =>
        heap[last.room].mode =
            DetermineOptimalMode(RoomSize(last.roomId),
                                 last.sfuUp, last.meshUp)

\* A room left in sfu by a join made while the mesh service was down falls
\* back to p2p at the next teardown, though its remaining member is still
\* there and nothing has been probed.
C4_LeaveRevertsForcedSfu ==
    /\ LeftARoom
    /\ rooms[last.roomId] # NoRoom
    /\ last.prevMode = "sfu"
    /\ last.mode = "p2p"
    /\ DetermineOptimalMode(RoomSize(last.roomId), TRUE, FALSE) = "sfu"

\* C5 as stated: a step emits mode-switched exactly when it ends a join or
\* removes a member and the mode arbitrated for that change differs from the
\* mode stored before it, once, carrying the arbitrated mode.  For a join
\* the arbitrated mode is the one its call of determineOptimalMode returned;
\* for a teardown it is the arbiter's output for the size after the
\* teardown, for every health under which the mode stored before was the
\* arbiter's output.
C5_ModeSwitchedIffArbitratedDiffers ==
    /\ JoinCompleted =>
           /\ Cardinality(ModeSwitchedEvents)
                  = (IF last.modeChanged THEN 1 ELSE 0)
           /\ \A i \in ModeSwitchedEvents : out[i].mode = last.optimalMode
    /\ LeftARoom =>
           \A sfuUp, meshUp \in BOOLEAN :
               LET arbitrated == DetermineOptimalMode(last.count, sfuUp, meshUp)
               IN last.prevMode =
                      DetermineOptimalMode(last.count + 1, sfuUp, meshUp)
                  => /\ Cardinality(ModeSwitchedEvents)
                            = (IF arbitrated # last.prevMode THEN 1 ELSE 0)
                     /\ \A i \in ModeSwitchedEvents :
                            out[i].mode = arbitrated
    /\ ~JoinCompleted /\ ~LeftARoom => ModeSwitchedEvents = {}

\* What the handlers do emit: mode-switched exactly in the steps that found
\* the stored mode different from the one they then wrote, a join from its
\* arbiter call and a teardown from its own size rule.
C5_ModeSwitchedIffModeWritten ==
    /\ JoinCompleted =>
           Cardinality(ModeSwitchedEvents) = (IF last.modeChanged THEN 1 ELSE 0)
    /\ LeftARoom =>
           /\ Cardinality(ModeSwitchedEvents)
                  = (IF last.mode # last.prevMode THEN 1 ELSE 0)
           /\ \A i \in ModeSwitchedEvents : out[i].mode = last.mode
    /\ ~JoinCompleted /\ ~LeftARoom => ModeSwitchedEvents = {}

\* A join whose room was switched back by a teardown while its token request
\* was pending announces the mode the teardown wrote, not the one the join
\* arbitrated.
C5_JoinAnnouncesOtherMode ==
    /\ JoinCompleted
    /\ \E i \in ModeSwitchedEvents : out[i].mode # last.optimalMode

\* A teardown announces p2p for a room whose mode the arbiter would keep.
C5_LeaveAnnouncesUnarbitrated ==
    /\ LeftARoom
    /\ last.prevMode = "sfu"
    /\ DetermineOptimalMode(last.count, TRUE, FALSE) = "sfu"
    /\ \E i \in ModeSwitchedEvents : out[i].mode = "p2p"

\* C6: the mode determineOptimalMode returns depends on the member count and
\* the two health values only, whatever mode the room has stored: p2p when
\* the SFU is down, sfu when the SFU is up and the mesh service down, and
\* with both up sfu from ten members on and p2p below ten.
C6_DecideIsFunctionOfCountAndHealth ==
    last.op = "join-arbitrated" =>
        last.optimalMode =
            (IF ~last.sfuUp THEN "p2p"
             ELSE IF ~last.meshUp THEN "sfu"
             ELSE IF last.count >= 10 THEN "sfu"
             ELSE "p2p")

\* C6 witness: with both services up the arbiter returns p2p for nine
\* members of a room stored in sfu.
C6_Witness ==
    /\ last.op = "join-arbitrated"
    /\ last.sfuUp /\ last.meshUp
    /\ last.count = 9
    /\ last.prevMode = "sfu"
    /\ last.optimalMode = "p2p"

\* The other side of the threshold: sfu for ten members of a room stored in
\* p2p.
C6_TenthMemberFromP2P ==
    /\ last.op = "join-arbitrated"
    /\ last.sfuUp /\ last.meshUp
    /\ last.count = 10
    /\ last.prevMode = "p2p"
    /\ last.optimalMode = "sfu"

(* =================== one room, ten joins, nine leaves ================== *)

\* The members of the scenario's room.
E2EMembers ==
    IF rooms["r1"] = NoRoom THEN {} ELSE heap[rooms["r1"]].participants

\* The step just taken ended a join that brought the room to n members.
NthJoinCompleted(n) ==
    /\ JoinCompleted
    /\ Cardinality(E2EMembers) = n

\* C7: with both services up, the token issued and handlers run one at a
\* time, the first join of a room is answered by room-joined with mode p2p
\* and no participants and emits no mode-switched; the second to ninth emit
\* no mode-switched; the tenth emits one mode-switched, with mode sfu, to
\* every member, the joiner included (and to the members only when nobody
\* has left the room yet), and its room-joined carries mode sfu and a token.
C7_TenthJoinSwitchesToSfu ==
    /\ NthJoinCompleted(1) =>
           /\ out[1].ev = "room-joined"
           /\ out[1].to = {last.socket}
           /\ out[1].mode = "p2p"
           /\ out[1].participants = {}
           /\ out[1].sfuToken = "null"
           /\ ModeSwitchedEvents = {}
    /\ \A n \in 2 .. 9 :
           NthJoinCompleted(n) =>
               /\ ModeSwitchedEvents = {}
               /\ out[1].ev = "room-joined"
               /\ out[1].mode = "p2p"
    /\ NthJoinCompleted(10) =>
           /\ Cardinality(ModeSwitchedEvents) = 1
           /\ \A i \in ModeSwitchedEvents :
                  /\ out[i].mode = "sfu"
                  /\ E2EMembers \subseteq out[i].to
                  /\ E2EMembers = 1 .. 10 => out[i].to = 1 .. 10
           /\ last.socket \in E2EMembers
           /\ out[1].ev = "room-joined"
           /\ out[1].to = {last.socket}
           /\ out[1].mode = "sfu"
           /\ out[1].sfuToken # "null"

\* C7 witness: the tenth join has completed with connections 1 to 10 in the
\* room, the room in sfu and mode-switched among the events.
C7_Witness ==
    /\ NthJoinCompleted(10)
    /\ last.socket = 10
    /\ E2EMembers = 1 .. 10
    /\ heap[rooms["r1"]].mode = "sfu"
    /\ \E i \in DOMAIN out : out[i].ev = "mode-switched"

\* C8 as stated: a teardown never turns a p2p room into an sfu room; it turns
\* an sfu room into a p2p room, and emits one mode-switched with mode p2p,
\* exactly when it takes the room from ten or more members to fewer than
\* ten, and it emits no other mode-switched.
C8_LeaveSwitchesOnlyOnCrossing ==
    LeftARoom =>
        LET crossing == /\ last.prevMode = "sfu"
                        /\ last.count + 1 >= 10
                        /\ last.count < 10
        IN /\ last.prevMode = "p2p" => last.mode = "p2p"
           /\ (last.prevMode = "sfu" /\ last.mode = "p2p") <=> crossing
           /\ Cardinality(ModeSwitchedEvents) = (IF crossing THEN 1 ELSE 0)
           /\ \A i \in ModeSwitchedEvents : out[i].mode = "p2p"

\* Nine members remain of the ten that had switched the room to sfu: the
\* case of C8 the teardown does get right.
C8_CrossingReached ==
    /\ LeftARoom
    /\ last.prevMode = "sfu"
    /\ last.mode = "p2p"
    /\ last.count = 9
    /\ Cardinality(ModeSwitchedEvents) = 1

(* ======================== no-op and rejected events ==================== *)

\* C9: a leave-room or disconnect for a connection without a participant
\* record changes neither Map nor any room object and emits nothing, and so
\* does a leave-room whose payload makes the handler throw; hence user-left
\* is emitted for a connection only in the step that removes its record.
C9_TeardownWithoutRecordIsNoOp ==
    [][/\ (/\ last'.op \in {"leave-room", "disconnect"}
           /\ participants[last'.socket] = NoParticipant)
          => /\ UNCHANGED <<rooms, heap, participants>>
             /\ out' = <<>>
       /\ last'.op = "leave-room-threw"
          => /\ UNCHANGED <<rooms, heap, participants>>
             /\ out' = <<>>
       /\ \A i \in DOMAIN out' :
             out'[i].ev = "user-left"
             => /\ participants[out'[i].socketId] # NoParticipant
                /\ participants'[out'[i].socketId] = NoParticipant
      ]_vars

\* C9 witness: a connection that had joined and left is disconnected while
\* the room it was in still has its other member.
C9_Witness ==
    /\ last.op = "disconnect"
    /\ ~last.known
    /\ joinCount[last.socket] = 1
    /\ out = <<>>
    /\ \E r \in RoomIds : RoomSize(r) = 1

\* C10: a join-room whose payload is absent or lacks a non-empty roomId,
\* userId or userName emits one error event, to the sender alone, and leaves
\* both Maps, every room object, every room group and every suspended
\* handler as they were.
C10_InvalidJoinOnlyAnswersError ==
    [][(last'.op = "join-room" /\ ~last'.wellFormed)
       => /\ Len(out') = 1
          /\ out'[1].ev = "error"
          /\ out'[1].to = {last'.socket}
          /\ UNCHANGED <<rooms, heap, participants, adapterRooms, handler,
                         connected>>
      ]_vars

\* C10 witness: a connection in no room has just been answered error, while
\* the other connection is a member of a room.
C10_Witness ==
    /\ last.op = "join-room"
    /\ ~last.wellFormed
    /\ ~last.accepted
    /\ Len(out) = 1
    /\ out[1].ev = "error"
    /\ participants[last.socket] = NoParticipant
    /\ \E r \in RoomIds : RoomSize(r) = 1

(* ========================= deliveries of a join ======================== *)

\* The members of the room the Map holds under roomId, none when it holds
\* no such room.
MembersOf(roomId) ==
    IF rooms[roomId] = NoRoom THEN {} ELSE heap[rooms[roomId]].participants

\* The step just taken ended the join of a connection that is still open,
\* still recorded and still a member of the room it joined.
JoinSucceeded ==
    /\ JoinCompleted
    /\ connected[last.socket]
    /\ participants[last.socket] # NoParticipant
    /\ participants[last.socket].roomId = last.roomId
    /\ rooms[last.roomId] = last.room
    /\ last.socket \in MembersOf(last.roomId)

\* C11 as stated: a join that succeeds emits room-joined to the joiner alone,
\* listing exactly the other current members of the room (a member whose own
\* join is still suspended, and who will announce itself by user-joined, may
\* be missing) and carrying the room's stored mode, then user-joined to every
\* other member and not to the joiner, then, exactly if this join changed the
\* stored mode, mode-switched to every member, the joiner included, and
\* nothing else.
C11_JoinDeliveries ==
    JoinSucceeded =>
        LET c == last.socket
            others == MembersOf(last.roomId) \ {c}
        IN /\ Len(out) = (IF last.modeChanged THEN 3 ELSE 2)
           /\ out[1].ev = "room-joined"
           /\ out[1].to = {c}
           /\ out[1].participants \subseteq others
           /\ \A d \in others \ out[1].participants : handler[d].pc # "idle"
           /\ \A d \in others : participants[d] # NoParticipant
           /\ out[1].mode = heap[last.room].mode
           /\ out[2].ev = "user-joined"
           /\ out[2].socketId = c
           /\ others \subseteq out[2].to
           /\ c \notin out[2].to
           /\ last.modeChanged =>
                 /\ out[3].ev = "mode-switched"
                 /\ out[3].mode = heap[last.room].mode
                 /\ (others \cup {c}) \subseteq out[3].to

\* The joiner is told of a participant who left the room while the joiner's
\* token request was pending.
C11_StaleParticipantListed ==
    /\ JoinSucceeded
    /\ last.op = "join-token"
    /\ \E d \in out[1].participants :
          /\ d \notin MembersOf(last.roomId)
          /\ participants[d] = NoParticipant

\* The join half of C12, which every run satisfies: the handler goes on to
\* the token request exactly when the mode it has just arbitrated and stored
\* is sfu.
C12_TokenRequestedIffSfu ==
    last.op = "join-arbitrated" =>
        /\ heap[last.room].mode = last.optimalMode
        /\ handler[last.socket].pc = "token" <=> last.optimalMode = "sfu"
        /\ last.done <=> last.optimalMode = "p2p"

C12_TokenWithP2P ==
    /\ JoinCompleted
    /\ out[1].mode = "p2p"
    /\ out[1].sfuToken # "null"

\* The step being taken is the return of a failed token request to the
\* join-room handler of connection c.
TokenFailsFor(c) ==
    /\ last'.op = "join-token"
    /\ last'.socket = c
    /\ ~last'.tokenOk

\* What a failed token request leaves alone and emits whatever the room's
\* mode: both Maps, the room groups and every room of the Map stay as they
\* are, the handler ends without asking again, the joiner is sent room-joined
\* with the stored mode and a null token, the other members user-joined, and
\* nobody an error.
TokenFailureKeepsJoin(c) ==
    LET room == heap[handler[c].room]
    IN /\ UNCHANGED <<rooms, participants, adapterRooms, connected>>
       /\ \A r \in RoomIds :
             rooms[r] # NoRoom => heap'[rooms[r]] = heap[rooms[r]]
       /\ handler'[c].pc = "idle"
       /\ out'[1].ev = "room-joined"
       /\ out'[1].to = SocketEmit(connected, c)
       /\ out'[1].mode = room.mode
       /\ out'[1].sfuToken = "null"
       /\ out'[2].ev = "user-joined"
       /\ out'[2].socketId = c
       /\ (MembersOf(handler[c].roomId) \ {c}) \subseteq out'[2].to
       /\ \A i \in DOMAIN out' : out'[i].ev # "error"

LeftExistingRoom ==
    /\ last.op \in {"leave-room", "disconnect"}
    /\ last.known
    /\ last.room # NoRoom

\* C14 as stated: when a member leaves or disconnects and its room exists,
\* user-left is emitted once, first, and is delivered to exactly the members
\* that remain in the room, so neither to the leaving connection nor to any
\* connection outside the room, with participantsCount the size of the
\* member set after the removal; only mode-switched may follow it.
C14_UserLeftDeliveries ==
    LeftExistingRoom =>
        LET remaining == MembersOf(last.roomId)
        IN /\ Len(out) >= 1
           /\ out[1].ev = "user-left"
           /\ out[1].socketId = last.socket
           /\ out[1].to = remaining
           /\ out[1].participantsCount = Cardinality(remaining)
           /\ \A i \in 2 .. Len(out) : out[i].ev = "mode-switched"

\* The part of C14 every run satisfies: user-left is emitted once, first,
\* reaches every remaining member and not the leaving connection, and counts
\* the members left.
C14_UserLeftReachesMembers ==
    LeftExistingRoom =>
        LET remaining == MembersOf(last.roomId)
        IN /\ Len(out) >= 1
           /\ out[1].ev = "user-left"
           /\ out[1].socketId = last.socket
           /\ remaining \subseteq out[1].to
           /\ last.socket \notin out[1].to
           /\ out[1].participantsCount = Cardinality(remaining)
           /\ \A i \in 2 .. Len(out) : out[i].ev = "mode-switched"

\* user-left reaches a connection that has left the room by leave-room.
C14_UserLeftToFormerMember ==
    /\ LeftExistingRoom
    /\ \E d \in out[1].to :
          /\ d \notin MembersOf(last.roomId)
          /\ participants[d] = NoParticipant

\* user-left of one room reaches a connection that is by now a member of
\* another room and recorded there.
C14_UserLeftToMemberOfOtherRoom ==
    /\ LeftExistingRoom
    /\ \E d \in out[1].to : \E r \in RoomIds \ {last.roomId} :
          /\ d \notin MembersOf(last.roomId)
          /\ d \in MembersOf(r)
          /\ participants[d].roomId = r


(* ========================= deliveries of a relay ======================= *)

\* The step just taken was a relay handler run on a payload.
Relayed == last.op \in RelayKinds /\ last.present

\* The open connection whose id is `to', if any.
ConnectionNamed(to) == {d \in Sockets : connected[d] /\ ToString(d) = to}

\* C15 as stated: a relayed event carries the sender's id in `from' and is
\* delivered to at most one connection, the one whose id equals `to', never
\* to the sender nor to anyone else, whatever `to' is.
C15_RelayIsUnicast ==
    Relayed =>
        /\ Len(out) = 1
        /\ out[1].ev = last.op
        /\ out[1].from = last.socket
        /\ Cardinality(out[1].to) <= 1
        /\ out[1].to \subseteq ConnectionNamed(last.target)
        /\ last.socket \notin out[1].to

\* The part of C15 every run satisfies: the same when `to' is not the id of
\* a room, and never a delivery to the sender.
C15_RelayToConnectionIsUnicast ==
    Relayed =>
        /\ Len(out) = 1
        /\ out[1].ev = last.op
        /\ out[1].from = last.socket
        /\ last.socket \notin out[1].to
        /\ last.target \notin RoomIds =>
              out[1].to = ConnectionNamed(last.target) \ {last.socket}

\* A relay whose `to' is a room id reaches a connection of that room's group.
C15_RelayToRoomDelivered ==
    /\ Relayed
    /\ last.target \in RoomIds
    /\ \E d \in out[1].to : ToString(d) # last.target


\* `to' names no open connection and no room group.
NamesNobody(to) == to \notin RoomIds /\ ConnectionNamed(to) = {}

\* C16: a relay handler run on a payload whose `to' names a closed or
\* nonexistent connection delivers nothing to anyone, the sender included,
\* so no error event either, and leaves the rooms Map, the room objects and
\* the participants Map as they were, whether or not the sender has a
\* participant record.
C16_RelayToNobodyIsDropped ==
    [][(last'.op \in RelayKinds /\ last'.present /\ NamesNobody(last'.target)) =>
          /\ \A i \in 1 .. Len(out') : out'[i].to = {} /\ out'[i].ev # "error"
          /\ rooms' = rooms
          /\ heap' = heap
          /\ participants' = participants]_vars

\* A connection without a participant record has relayed to the id of a
\* connection that is closed, while the other connection could have been
\* reached.
C16_Witness ==
    /\ Relayed
    /\ participants[last.socket] = NoParticipant
    /\ \E d \in Sockets : ~connected[d] /\ last.target = ToString(d)
    /\ out[1].to = {}

\* A member of a room shared with an open connection has relayed to an id
\* that no connection has.
C16_WitnessNonexistent ==
    /\ Relayed
    /\ last.target = "nobody"
    /\ participants[last.socket] # NoParticipant
    /\ \E d \in MembersOf(participants[last.socket].roomId) \ {last.socket} :
          connected[d]
    /\ out[1].to = {}


(* ======================= media state and chat ========================== *)

\* C17: media-state-change from a recorded connection replaces the
\* mediaState of its record by the payload and nothing else of it, leaves
\* every other record, the rooms Map and every room object as they were, and
\* emits one participant-media-state, carrying the sender's id and the
\* payload, that reaches every other member of the sender's room and not the
\* sender; from a connection without record it changes and emits nothing.
C17_MediaStateChangeEffect ==
    [][last'.op = "media-state-change" =>
          LET c == last'.socket
              data == last'.data
          IN /\ rooms' = rooms
             /\ heap' = heap
             /\ \A d \in Sockets \ {c} : participants'[d] = participants[d]
             /\ IF participants[c] # NoParticipant
                THEN /\ participants'[c] =
                            [participants[c] EXCEPT !.mediaState = data]
                     /\ Len(out') = 1
                     /\ out'[1].ev = "participant-media-state"
                     /\ out'[1].socketId = c
                     /\ out'[1].mediaState = data
                     /\ (MembersOf(participants[c].roomId) \ {c})
                            \subseteq out'[1].to
                     /\ c \notin out'[1].to
                ELSE /\ participants'[c] = participants[c]
                     /\ out' = <<>>]_vars

\* A member has changed its media state and another member, whose own state
\* differs, has been told.
C17_Witness ==
    /\ last.op = "media-state-change"
    /\ participants[last.socket] # NoParticipant
    /\ participants[last.socket].mediaState = last.data
    /\ \E d \in MembersOf(participants[last.socket].roomId) \ {last.socket} :
          /\ d \in out[1].to
          /\ participants[d] # NoParticipant
          /\ participants[d].mediaState # last.data

\* A connection without record has sent media-state-change while the other
\* connection is recorded.
C17_WitnessUnknown ==
    /\ last.op = "media-state-change"
    /\ participants[last.socket] = NoParticipant
    /\ \E d \in Sockets : participants[d] # NoParticipant
    /\ out = <<>>


\* C18 as stated: chat-message from a recorded connection is emitted once,
\* with the sender's id and its stored userId and userName, and is delivered
\* to exactly the members of the sender's room, the sender included; from a
\* connection without record nothing is emitted.
C18_ChatReachesExactlyTheRoom ==
    last.op = "chat-message" =>
        LET c == last.socket
        IN IF participants[c] # NoParticipant
           THEN /\ Len(out) = 1
                /\ out[1].ev = "chat-message"
                /\ out[1].socketId = c
                /\ out[1].userId = participants[c].userId
                /\ out[1].userName = participants[c].userName
                /\ out[1].to = MembersOf(participants[c].roomId)
           ELSE out = <<>>

\* The part of C18 every run satisfies: the same, with the delivery reaching
\* every member of the sender's room, the sender included.
C18_ChatReachesTheRoom ==
    last.op = "chat-message" =>
        LET c == last.socket
        IN IF participants[c] # NoParticipant
           THEN /\ Len(out) = 1
                /\ out[1].ev = "chat-message"
                /\ out[1].socketId = c
                /\ out[1].userId = participants[c].userId
                /\ out[1].userName = participants[c].userName
                /\ c \in out[1].to
                /\ MembersOf(participants[c].roomId) \subseteq out[1].to
           ELSE out = <<>>

\* chat-message reaches a connection that has left the sender's room by
\* leave-room and has no participant record.
C18_ChatToFormerMember ==
    /\ last.op = "chat-message"
    /\ participants[last.socket] # NoParticipant
    /\ \E d \in out[1].to :
          /\ d \notin MembersOf(participants[last.socket].roomId)
          /\ participants[d] = NoParticipant


(* ========================== request-sfu-token ========================== *)

\* C19: request-sfu-token from a connection without participant record, or
\* whose stored roomId is not the requested one, emits one sfu-token-error
\* to the sender alone, calls nothing and changes no Map, room object or
\* pending request; when the stored roomId is the requested one the SFU is
\* called, nothing is emitted before it answers, and its answer is followed
\* by exactly one event addressed to the sender alone, sfu-token when the
\* call succeeded and sfu-token-error when it failed, with no other change.
C19_TokenRequestAnswers ==
    [][/\ last'.op = "request-sfu-token" =>
             LET c == last'.socket
                 data == last'.data
             IN /\ rooms' = rooms /\ heap' = heap
                /\ participants' = participants
                /\ IF \/ participants[c] = NoParticipant
                      \/ participants[c].roomId # data.roomId
                   THEN /\ ~last'.called
                        /\ sfuRequest' = sfuRequest
                        /\ Len(out') = 1
                        /\ out'[1].ev = "sfu-token-error"
                        /\ out'[1].to = {c}
                   ELSE /\ last'.called
                        /\ sfuRequest'[c]
                        /\ out' = <<>>
       /\ last'.op = "sfu-token-returned" =>
             LET c == last'.socket
             IN /\ rooms' = rooms /\ heap' = heap
                /\ participants' = participants
                /\ sfuRequest[c] /\ ~sfuRequest'[c]
                /\ Len(out') = 1
                /\ out'[1].ev = (IF last'.tokenOk THEN "sfu-token"
                                                  ELSE "sfu-token-error")
                /\ out'[1].to = (IF connected[c] THEN {c} ELSE {})]_vars

\* A member has asked for a token for its own room, shared with another
\* member, and has received it.
C19_Witness ==
    /\ last.op = "sfu-token-returned"
    /\ last.tokenOk
    /\ participants[last.socket] # NoParticipant
    /\ MembersOf(participants[last.socket].roomId) = Sockets
    /\ out[1].ev = "sfu-token"
    /\ out[1].to = {last.socket}

\* A member of one room has asked for a token for the other room and has
\* been refused.
C19_WitnessRefused ==
    /\ last.op = "request-sfu-token"
    /\ participants[last.socket] # NoParticipant
    /\ last.data.roomId \in RoomIds \ {participants[last.socket].roomId}
    /\ ~last.called
    /\ out[1].ev = "sfu-token-error"


(* ============================== the reaper ============================= *)

\* C20: a run of the periodic cleanup removes from the rooms Map only rooms
\* whose member set is empty and that are older than MAX_INACTIVE_TIME, and
\* from the participants Map only records whose roomId the rooms Map no
\* longer holds once the rooms have been removed; a room with members and a
\* record whose room is still in the Map stay, and every room that stays
\* keeps its object, with its members and its mode.
C20_CleanupDeletesOnlyDeadEntries ==
    [][last'.op = "cleanup" =>
          /\ \A r \in RoomIds :
                /\ rooms'[r] \in {rooms[r], NoRoom}
                /\ rooms'[r] # rooms[r] =>
                      /\ heap[rooms[r]].participants = {}
                      /\ now - heap[rooms[r]].createdAt > MAX_INACTIVE_TIME
                /\ rooms'[r] # NoRoom => heap'[rooms'[r]] = heap[rooms[r]]
          /\ \A c \in Sockets :
                /\ participants'[c] \in {participants[c], NoParticipant}
                /\ participants'[c] # participants[c] =>
                      rooms'[participants[c].roomId] = NoRoom]_vars

\* The cleanup has run over a room that is older than MAX_INACTIVE_TIME and
\* has a recorded member: the room and the record are still there.
C20_Witness ==
    /\ last.op = "cleanup"
    /\ \E r \in RoomIds : \E c \in MembersOf(r) :
          /\ now - heap[rooms[r]].createdAt > MAX_INACTIVE_TIME
          /\ participants[c] # NoParticipant
          /\ participants[c].roomId = r

\* In the runs of the server the cleanup finds nothing to delete.
C20_CleanupFindsNothing ==
    last.op = "cleanup" =>
        last.cleanedRooms = 0 /\ last.cleanedParticipants = 0


(* ============================ health probes ============================ *)

\* The step resumes the join of c, suspended on determineOptimalMode, with
\* what the probes make of the results sfuRes and p2pRes of their calls.
ProbesReturned(c, sfuRes, p2pRes) ==
    /\ handler[c].pc = "health"
    /\ last'.op = "join-arbitrated"
    /\ last'.socket = c
    /\ last'.sfuUp = CheckSFUHealth(sfuRes)
    /\ last'.meshUp = CheckP2PHealth(p2pRes)

\* C21: whatever the two probe calls of a join end with, each probe returns
\* a boolean, FALSE when its call failed; the arbiter then returns p2p or
\* sfu, every room object holds one of the two modes, the handler goes on to
\* its end or to the token request, and no error event is emitted.
C21_ProbeFailureIsUnavailable ==
    [][\A c \in Sockets : \A sfuRes, p2pRes \in ProbeResults :
          ProbesReturned(c, sfuRes, p2pRes) =>
              /\ last'.sfuUp \in BOOLEAN /\ last'.meshUp \in BOOLEAN
              /\ ProbeFailed(sfuRes) => ~last'.sfuUp
              /\ ProbeFailed(p2pRes) => ~last'.meshUp
              /\ last'.optimalMode \in Modes
              /\ \A a \in Addresses : heap'[a].mode \in Modes
              /\ handler'[c].pc \in {"idle", "token"}
              /\ \A i \in 1 .. Len(out') : out'[i].ev # "error"]_vars

\* Both probes of a join have come back unavailable and the join has ended
\* with room-joined in p2p.
C21_Witness ==
    /\ last.op = "join-arbitrated"
    /\ ~last.sfuUp /\ ~last.meshUp
    /\ last.optimalMode = "p2p"
    /\ Len(out) >= 1
    /\ out[1].ev = "room-joined"
    /\ out[1].to = {last.socket}


(* =============================== progress ============================== *)

\* The join-room handler of c has ended by sending room-joined.
JoinAnswered(c) ==
    /\ last.op \in {"join-arbitrated", "join-token"}
    /\ last.socket = c
    /\ handler[c].pc = "idle"
    /\ \E i \in 1 .. Len(out) : out[i].ev \in {"room-joined", "error"}

\* The request-sfu-token handler of c has ended by sending its answer.
TokenRequestAnswered(c) ==
    /\ last.op = "sfu-token-returned"
    /\ last.socket = c
    /\ ~sfuRequest[c]
    /\ \E i \in 1 .. Len(out) : out[i].ev \in {"sfu-token", "sfu-token-error"}

\* C22 as stated: every join-room handler suspended on a backing service
\* eventually ends by sending room-joined or error, and every
\* request-sfu-token handler suspended on the SFU eventually ends by sending
\* sfu-token or sfu-token-error, whether or not the service answers.
C22_HandlersEndWhateverTheService ==
    \A c \in SocketIds :
        /\ (handler[c].pc # "idle") ~> JoinAnswered(c)
        /\ sfuRequest[c] ~> TokenRequestAnswered(c)

\* What the handlers do guarantee: they end, with their answer sent, once
\* the call they await has settled.
C22_HandlersEndWhenAnswered ==
    \A c \in SocketIds :
        /\ (handler[c].pc # "idle") ~> JoinAnswered(c)
        /\ sfuRequest[c] ~> TokenRequestAnswered(c)
        /\ [](handler[c].pc \in {"idle", "health", "token"})

\* A join-room handler is suspended on its token call while the same
\* connection's request-sfu-token is suspended on the SFU.
C22_BothSuspended ==
    \E c \in Sockets : handler[c].pc = "token" /\ sfuRequest[c]


(* ===================== the life of a connection ======================== *)

\* Connection c has joined a room and its leave-room or disconnect has been
\* processed: it has no participant record and is a member of no room.
Departed(c) ==
    /\ joinCount[c] > 0
    /\ participants[c] = NoParticipant
    /\ \A r \in RoomIds : c \notin MembersOf(r)

\* C23 as stated: a connection whose leave-room or disconnect has been
\* processed never comes back, neither to the participants Map nor to the
\* member set of a room.
C23_DepartedIsTerminal ==
    [][\A c \in SocketIds : Departed(c) => Departed(c)']_vars

\* The part of C23 every run satisfies: a connection that has disconnected
\* never comes back.
C23_DisconnectedIsTerminal ==
    [][\A c \in SocketIds : (~connected[c] /\ Departed(c)) => Departed(c)']_vars

\* A connection that left by leave-room is a recorded member of a room again.
C23_RejoinedAfterLeave ==
    \E c \in Sockets :
        /\ last.op \in {"join-arbitrated", "join-token"}
        /\ last.socket = c
        /\ joinCount[c] = 2
        /\ ~overlap
        /\ participants[c] # NoParticipant
        /\ c \in MembersOf(participants[c].roomId)


(* ======================= room-ensure before token ====================== *)

\* Every /tokens call of the flow comes after a /rooms call of the same flow
\* for the same room that was answered by a 2xx.
EnsuredBeforeToken(calls) ==
    \A i \in 1 .. Len(calls) :
        calls[i].url = "/tokens" =>
            \E j \in 1 .. (i - 1) :
                /\ calls[j].url = "/rooms"
                /\ calls[j].roomId = calls[i].roomId
                /\ calls[j].answer = "ok"

\* POST /sfu-token answers a non-2xx of /rooms or of /tokens with an error
\* status and no token, and a 2xx of /tokens with the token.
PostSurfacesFailure ==
    /\ (last.op = "post-sfu-token-room" /\ ~last.createRoomOk) =>
          out = HttpResponse(500, "null")
    /\ last.op = "post-sfu-token-token" =>
          out = (IF last.tokenOk THEN HttpResponse(200, "token")
                                 ELSE HttpResponse(500, "null"))

\* C24 as stated: in each of the three flows a token request is sent to the
\* SFU only after a room-ensure request of the same flow for the same room
\* has succeeded, and POST /sfu-token and request-sfu-token answer a non-2xx
\* with an error and forward no token.
C24_TokenOnlyAfterEnsure ==
    /\ \A c \in Sockets :
          /\ EnsuredBeforeToken(SfuCallsOfJoin(c))
          /\ EnsuredBeforeToken(SfuCallsOfTokenRequest(c))
    /\ EnsuredBeforeToken(SfuCallsOfPost)
    /\ PostSurfacesFailure
    /\ (last.op = "sfu-token-returned" /\ ~last.tokenOk) =>
          out[1].ev = "sfu-token-error"

\* The part of C24 every run satisfies: the POST /sfu-token route ensures
\* the room before it asks for the token, and the route and
\* request-sfu-token answer a non-2xx with an error and no token.
C24_PostEnsuresBeforeToken ==
    /\ EnsuredBeforeToken(SfuCallsOfPost)
    /\ PostSurfacesFailure
    /\ (last.op = "sfu-token-returned" /\ ~last.tokenOk) =>
          out[1].ev = "sfu-token-error"

\* The POST /sfu-token route is waiting for the token of a room it has
\* ensured.
C24_PostWaitsForToken ==
    /\ http.pc = "tokens"
    /\ Len(SfuCallsOfPost) = 3

\* A join-room handler and a request-sfu-token handler are each waiting for
\* a token of a room that neither has ensured.
C24_TokenAskedWithoutEnsure ==
    \E c, d \in Sockets :
        /\ handler[c].pc = "token"
        /\ sfuRequest[d]
        /\ ~EnsuredBeforeToken(SfuCallsOfJoin(c))
        /\ ~EnsuredBeforeToken(SfuCallsOfTokenRequest(d))


(* ==================== events of connections outside a room ============= *)

\* The steps a handler takes for an event of connection last.socket.
SocketSteps ==
    {"join-room", "join-arbitrated", "join-token", "leave-room",
     "leave-room-threw", "disconnect", "media-state-change", "chat-message",
     "request-sfu-token", "sfu-token-returned", "ping", "get-stats"}
        \cup RelayKinds

\* The step recorded in `step' belongs to a join-room event naming roomId.
JoinNaming(step, roomId) ==
    \/ step.op = "join-room" /\ step.accepted /\ step.roomId = roomId
    \/ step.op \in {"join-arbitrated", "join-token"} /\ step.roomId = roomId

\* The events that tell a room about its membership and mode.
RoomEvents == {"user-joined", "user-left", "mode-switched"}

\* The step leaves the room under roomId as it is: same object in the Map,
\* same members, same mode, same records of its members.
RoomUntouched(roomId) ==
    /\ rooms'[roomId] = rooms[roomId]
    /\ heap'[rooms[roomId]].participants = heap[rooms[roomId]].participants
    /\ heap'[rooms[roomId]].mode = heap[rooms[roomId]].mode
    /\ \A d \in MembersOf(roomId) : participants'[d] = participants[d]

\* C25 as stated: a handler step for an event of a connection that is not a
\* member of room R, a join-room naming R excepted, leaves R untouched and
\* delivers no user-joined, user-left or mode-switched to a member of R.
\* Runs in which a connection joins while it is recorded in a room are left
\* aside.
C25_OutsiderLeavesRoomAlone ==
    [][\A R \in RoomIds :
          (/\ ~overlap'
           /\ last'.op \in SocketSteps
           /\ rooms[R] # NoRoom
           /\ last'.socket \notin MembersOf(R)
           /\ ~JoinNaming(last', R)) =>
              /\ RoomUntouched(R)
              /\ \A i \in 1 .. Len(out') :
                    out'[i].ev \in RoomEvents =>
                        out'[i].to \cap MembersOf(R) = {}]_vars

\* The part of C25 every run satisfies: such a step leaves R untouched.
C25_OutsiderLeavesRoomUntouched ==
    [][\A R \in RoomIds :
          (/\ last'.op \in SocketSteps
           /\ rooms[R] # NoRoom
           /\ last'.socket \notin MembersOf(R)
           /\ ~JoinNaming(last', R)) =>
              RoomUntouched(R)]_vars

\* A member of one room, recorded there, receives the user-left of a
\* connection that has left another room.
C25_UserLeftAcrossRooms ==
    /\ LeftExistingRoom
    /\ \E d \in out[1].to : \E R \in RoomIds \ {last.roomId} :
          /\ d \in MembersOf(R)
          /\ participants[d].roomId = R
          /\ last.socket \notin MembersOf(R)


(* ========================== read-only events =========================== *)

\* The steps of the handlers of ping, get-stats, the three relays,
\* chat-message and request-sfu-token.
ReadOnlySteps ==
    {"ping", "get-stats", "chat-message", "request-sfu-token",
     "sfu-token-returned"} \cup RelayKinds

\* C26: a step of the handler of ping, get-stats, webrtc-offer,
\* webrtc-answer, ice-candidate, chat-message or request-sfu-token leaves the
\* rooms Map, every room object and the participants Map as they were; ping
\* is answered by one pong to the sender alone, and get-stats by one stats
\* event to the sender alone, carrying the member count and the mode of the
\* room of the sender's record, or a null room when it has no record.
C26_ReadOnlyEvents ==
    [][last'.op \in ReadOnlySteps =>
          LET c == last'.socket
          IN /\ rooms' = rooms
             /\ heap' = heap
             /\ participants' = participants
             /\ last'.op = "ping" =>
                   /\ Len(out') = 1
                   /\ out'[1].ev = "pong"
                   /\ out'[1].to = {c}
             /\ last'.op = "get-stats" =>
                   /\ Len(out') = 1
                   /\ out'[1].ev = "stats"
                   /\ out'[1].to = {c}
                   /\ IF participants[c] = NoParticipant
                      THEN out'[1].room = NullRoom
                      ELSE /\ out'[1].room.roomId = participants[c].roomId
                           /\ out'[1].room.participantsCount =
                                 Cardinality(MembersOf(participants[c].roomId))
                           /\ out'[1].room.mode =
                                 heap[rooms[participants[c].roomId]].mode]_vars

\* A member of a room has asked for the stats while the other connection is
\* a member of the other room.
C26_Witness ==
    /\ last.op = "get-stats"
    /\ participants[last.socket] # NoParticipant
    /\ out[1].room.roomId = participants[last.socket].roomId
    /\ out[1].room.participantsCount = 1
    /\ \E d \in Sockets \ {last.socket} :
          /\ participants[d] # NoParticipant
          /\ participants[d].roomId # participants[last.socket].roomId

\* A connection without record has asked for the stats while a room exists.
C26_WitnessNullRoom ==
    /\ last.op = "get-stats"
    /\ participants[last.socket] = NoParticipant
    /\ out[1].room = NullRoom
    /\ \E r \in RoomIds : rooms[r] # NoRoom


(* ========================== concurrent joins =========================== *)

\* The connections whose participant record names roomId.
RecordedIn(roomId) ==
    {c \in Sockets : participants[c] # NoParticipant
                     /\ participants[c].roomId = roomId}

\* C27: when no join handler is suspended any more, whatever the order in
\* which the joins of a room were resumed and the leaves that came in
\* between, the member set of each room is the set of connections recorded
\* in it, which have joined, its size is the number of joins accepted minus
\* the leaves done, a room that is not in the Map has no recorded connection,
\* and each member is held by one room object only, the one in the Map.
C27_ConcurrentJoinsKeepRoom ==
    Quiescent =>
        \A R \in RoomIds :
            /\ MembersOf(R) = RecordedIn(R)
            /\ Cardinality(MembersOf(R)) = net[R]
            /\ \A c \in MembersOf(R) :
                  /\ joinCount[c] = 1
                  /\ RoomsHolding(c) = {rooms[R]}

\* The connection that created the room, alone in it when its join began
\* (the count its mode-switched carries), is the last to have its join
\* resumed: meanwhile a second connection has joined and had its join
\* resumed, and a third has joined and left.
C27_Witness ==
    /\ Quiescent
    /\ last.op = "join-token"
    /\ last.modeChanged
    /\ \A c \in Sockets : joinCount[c] = 1
    /\ Cardinality(MembersOf("r1")) = 2
    /\ last.socket \in MembersOf("r1")
    /\ Len(out) = 3
    /\ out[1].participants = MembersOf("r1") \ {last.socket}
    /\ out[3].ev = "mode-switched"
    /\ out[3].participantsCount = 1

(* ---------------- C28: stored mode and membership at rest --------------- *)

StoredModeMatches(roomId) ==
    rooms[roomId] # NoRoom =>
        (heap[rooms[roomId]].mode = "sfu"
            <=> Cardinality(MembersOf(roomId)) >= ModeSwitchThreshold)

\* C28: with both backing services reachable and join and leave handlers
\* interleaved at the suspension points of the joins, once no started handler
\* is suspended any more the stored mode of each existing room is sfu if and
\* only if the room has at least ModeSwitchThreshold members.
C28_ModeMatchesMembershipAtRest ==
    Quiescent => \A R \in RoomIds : StoredModeMatches(R)

\* A member left while the join that brought the room to the threshold was
\* suspended: the room is at rest in sfu with fewer members than the
\* threshold.
C28_SfuBelowThreshold ==
    /\ Quiescent
    /\ rooms["r1"] # NoRoom
    /\ heap[rooms["r1"]].mode = "sfu"
    /\ Cardinality(MembersOf("r1")) < ModeSwitchThreshold

\* A join that began below the threshold was resumed after the one that
\* reached it: the room is at rest in p2p with the threshold reached.
C28_P2PAtThreshold ==
    /\ Quiescent
    /\ rooms["r1"] # NoRoom
    /\ heap[rooms["r1"]].mode = "p2p"
    /\ Cardinality(MembersOf("r1")) >= ModeSwitchThreshold

(* --------------- C29: user-joined names a present member ---------------- *)

\* The step just taken resumed a join-room handler.
JoinResumed == last.op \in {"join-arbitrated", "join-token"}

\* C29: whenever user-joined for a connection is delivered to a member of
\* the room the join named, that connection is at that moment a member of the
\* room record in the Map and has a participant record.
C29_UserJoinedNamesAMember ==
    JoinResumed =>
        \A i \in 1 .. Len(out) :
            out[i].ev = "user-joined" =>
                \A m \in out[i].to \cap MembersOf(last.roomId) :
                    /\ out[i].socketId \in MembersOf(last.roomId)
                    /\ participants[out[i].socketId] # NoParticipant

\* The connection disconnected while its join was suspended, the room was
\* deleted and created again by a later join, and the resumed handler tells
\* the member of the new room about the connection that is gone.
C29_ToldAboutDeparted ==
    /\ JoinResumed
    /\ last.done
    /\ ~connected[last.socket]
    /\ rooms[last.roomId] # NoRoom
    /\ rooms[last.roomId] # last.room
    /\ out[2].ev = "user-joined"
    /\ out[2].socketId = last.socket
    /\ out[2].to = MembersOf(last.roomId)
    /\ out[2].to # {}

\* The connection disconnected while its join was suspended and the resumed
\* handler stores a new mode in the room record the Map still holds.
C29_DepartedJoinWritesMode ==
    /\ JoinResumed
    /\ ~connected[last.socket]
    /\ last.modeChanged
    /\ rooms[last.roomId] = last.room
    /\ heap[last.room].mode = last.optimalMode
    /\ last.socket \notin MembersOf(last.roomId)
    /\ MembersOf(last.roomId) # {}

(* ------------- C30: transport group and member set agree ---------------- *)

\* C30: whenever no handler is suspended, the connections subscribed to the
\* transport group of a room are exactly the members of that room; a room
\* that is not in the Map has nobody subscribed.
C30_GroupEqualsMemberSet ==
    Quiescent => \A R \in RoomIds : adapterRooms[R] = MembersOf(R)

\* What the code keeps: every member of a room is subscribed to its group.
C30_MembersAreSubscribed ==
    Quiescent => \A R \in RoomIds : MembersOf(R) \subseteq adapterRooms[R]

\* A connection left its room, which was deleted, and stays open; the room
\* was created again under the same id by another connection, whose
\* user-joined is delivered to the connection that left.
C30_BroadcastAfterLeave ==
    /\ JoinResumed
    /\ last.done
    /\ Quiescent
    /\ last.socket \in MembersOf(last.roomId)
    /\ out[2].ev = "user-joined"
    /\ \E c \in out[2].to :
          /\ connected[c]
          /\ joinCount[c] = 1
          /\ participants[c] = NoParticipant
          /\ c \notin MembersOf(last.roomId)
          /\ MembersOf(last.roomId) = {last.socket}

(* ------------- C31: every member has a record of its room --------------- *)

\* C31: in every reachable state, those where a connection sent join-room
\* more than once without leaving in between included, every connection in
\* the member set of a room has a participant record whose roomId is that
\* room.
C31_MembersAreRecorded ==
    \A R \in RoomIds :
        \A c \in MembersOf(R) :
            /\ participants[c] # NoParticipant
            /\ participants[c].roomId = R

\* A connection joined one room and then another without leaving: it is a
\* member of both and its record names the second only.
C31_MemberOfTwoRooms ==
    \E c \in Sockets :
        /\ overlap
        /\ participants[c] # NoParticipant
        /\ \E R \in RoomIds : R # participants[c].roomId /\ c \in MembersOf(R)

\* That connection then left or disconnected: it has no record, is still a
\* member of the first room, and that room stays in the Map with no other
\* member.
C31_RoomKeptByDepartedMember ==
    /\ Quiescent
    /\ last.op \in {"leave-room", "disconnect"}
    /\ participants[last.socket] = NoParticipant
    /\ \E R \in RoomIds : MembersOf(R) = {last.socket}

(* ------------------ C32: the reaper finds nothing ----------------------- *)

\* No room of the Map has an empty member set and no participant record
\* names a room the Map does not hold.
RegistriesClean ==
    /\ \A R \in RoomIds : rooms[R] # NoRoom => MembersOf(R) # {}
    /\ \A c \in Sockets :
          participants[c] # NoParticipant =>
              rooms[participants[c].roomId] # NoRoom

\* A run of the cleanup that deletes nothing: both Maps and the room objects
\* they hold are what they were.
SweepDeletesNothing ==
    /\ rooms' = rooms
    /\ participants' = participants
    /\ \A R \in RoomIds : rooms[R] # NoRoom => heap'[rooms[R]] = heap[rooms[R]]
    /\ last'.cleanedRooms = 0
    /\ last'.cleanedParticipants = 0

\* C32: in every state reached through join-room, leave-room and disconnect
\* events, join handlers suspended and resumed in any order, no room of the
\* Map is empty and no participant record names a room missing from the Map;
\* so a run of the cleanup, whenever it comes and however old the rooms are,
\* deletes nothing and leaves both Maps unchanged.
C32_ReaperFindsNothing ==
    /\ []RegistriesClean
    /\ [][last'.op = "cleanup" => SweepDeletesNothing]_vars

\* The cleanup has just run while a join handler was suspended, over a room
\* older than MAX_INACTIVE_TIME that has a member, after another connection
\* had joined and gone: the room and the record are in place.
C32_Witness ==
    /\ last.op = "cleanup"
    /\ ~Quiescent
    /\ \E R \in RoomIds :
          /\ rooms[R] # NoRoom
          /\ now - heap[rooms[R]].createdAt > MAX_INACTIVE_TIME
          /\ \E c \in MembersOf(R) : participants[c].roomId = R
    /\ \E c \in Sockets : joinCount[c] = 1 /\ participants[c] = NoParticipant

(* ------------- C33: each member is announced exactly once --------------- *)

\* The step that led here ended the join of a, whose room-joined lists b.
ListedTo(a, b) ==
    /\ JoinResumed
    /\ last.done
    /\ last.socket = a
    /\ out[1].ev = "room-joined"
    /\ a \in out[1].to
    /\ b \in out[1].participants

\* a and b are open, recorded in the room and members of it.
BothRemainIn(a, b, roomId) ==
    /\ connected[a] /\ connected[b]
    /\ {a, b} \subseteq MembersOf(roomId)
    /\ {a, b} \subseteq RecordedIn(roomId)

\* C33: two connections that join the same room and remain in it learn of
\* each other exactly once.  In particular a connection whose room-joined
\* listed the other does not receive the other's user-joined afterwards:
\* no step that ends the join of b delivers user-joined for b to a right
\* after the step that ended the join of a with b on its list.
C33_AnnouncedOnce ==
    [][\A a, b \in Sockets :
          (/\ a # b
           /\ ListedTo(a, b)
           /\ last'.op \in {"join-arbitrated", "join-token"}
           /\ last'.done
           /\ last'.socket = b
           /\ last'.roomId = last.roomId
           /\ joinCount'[a] = 1 /\ joinCount'[b] = 1
           /\ BothRemainIn(a, b, last.roomId)')
          => ~(out'[2].ev = "user-joined" /\ a \in out'[2].to)]_vars

\* The join of b ends and its user-joined reaches a, whose own join is
\* suspended on the token request with b already on the list its room-joined
\* will carry.
C33_AnnouncedAndListed ==
    /\ JoinResumed
    /\ last.done
    /\ \E a \in Sockets :
          /\ a # last.socket
          /\ a \in out[2].to
          /\ out[2].ev = "user-joined"
          /\ handler[a].pc = "token"
          /\ handler[a].roomId = last.roomId
          /\ last.socket \in handler[a].existingParticipants
          /\ joinCount[a] = 1 /\ joinCount[last.socket] = 1
          /\ BothRemainIn(a, last.socket, last.roomId)

====
